---- MODULE Spec2Model ----
(***************************************************************************)
(* Model of the aggregation core of the news/social-media agents           *)
(* repository: DataProcessor (src/src/data_processor.py),                  *)
(* InsightGenerator (src/src/insight_generator.py) and the stage sequence  *)
(* of run_full_pipeline (src/main.py).                                     *)
(*                                                                         *)
(* Python values are modelled as follows.                                  *)
(*   - a dict is a TLA+ record (a function on its keys); dict.get(k, d) is *)
(*     Get(d, k, default);                                                 *)
(*   - a list is a sequence;                                               *)
(*   - a float is an exact rational <<num, den>> in lowest terms, den > 0  *)
(*     (the rounding of double arithmetic is outside the model);           *)
(*   - an item object of the input list is named by its index in `data`    *)
(*     (this is id(item): distinct list positions hold distinct objects);  *)
(*   - the iteration order of a set of strings depends on the process's    *)
(*     string-hash seed: an operation that lists a set takes the order as  *)
(*     a nondeterministic choice;                                          *)
(*   - a value found where a dict is expected (a number, a string, None)   *)
(*     is held in a box [not_a_dict |-> value].                            *)
(***************************************************************************)
EXTENDS Integers, Sequences, FiniteSets, TLC

VARIABLES
    pc,               \* "ready", or the name of the operation that returned
    data,             \* the item list handed to a DataProcessor operation
    topic,            \* the `topic` argument of extract_key_facts
    top_n,            \* the `top_n` argument of extract_trending_topics
    trending_topics,  \* data["trending_topics"]: list of topic dicts
    topics,           \* result of group_by_topic: dict kept as <<key, members>> pairs
    key_facts,        \* result of extract_key_facts
    topic_insights,   \* result of generate_topic_insights
    recommendations,  \* result of generate_content_recommendations
    min_relevance_score,  \* DataProcessor.min_relevance_score
    min_percentile,   \* the `min_percentile` argument of filter_by_engagement
    engagement_values,    \* the engagement value filter_by_engagement read for each item
    filtered_data,    \* result of a filter: the items kept, by their index in data
    source_distribution,  \* result of generate_source_distribution
    engagement_metrics,   \* result of generate_engagement_metrics
    runs,             \* the number of pipeline runs started on the input snapshot
    previous_run,     \* the outputs of the run before the current one
    threshold,        \* the threshold filter_by_engagement computed last
    data_files,       \* the input files handed to consolidate_data
    args,             \* the command-line arguments of main.py
    env,              \* what the collaborators of main.py give when called
    reports,          \* the stages run_full_pipeline ran, each with its report
    returned          \* what run_full_pipeline returned, "" before it returns

vars == <<pc, data, topic, top_n, trending_topics, topics, key_facts,
          topic_insights, recommendations, min_relevance_score,
          min_percentile, engagement_values, filtered_data,
          source_distribution, engagement_metrics, runs, previous_run,
          threshold, data_files, args, env, reports, returned>>

(***************************************************************************)
(* Generic helpers                                                         *)
(***************************************************************************)
Get(d, k, default) == IF k \in DOMAIN d THEN d[k] ELSE default

Range(s) == {s[i] : i \in 1..Len(s)}

Min(a, b) == IF a < b THEN a ELSE b

RECURSIVE GCD(_, _)
GCD(a, b) == IF b = 0 THEN a ELSE GCD(b, a % b)

\* Rationals <<num, den>>, den > 0, in lowest terms.  Sums and
\* comparisons go through the least common denominator and products are
\* cross-reduced first, so that intermediate values stay small.
R(n, d) == LET g == GCD(n, d) IN <<n \div g, d \div g>>
LCM(a, b) == (a \div GCD(a, b)) * b
OnDen(a, l) == a[1] * (l \div a[2])
RAdd(a, b) == LET l == LCM(a[2], b[2]) IN R(OnDen(a, l) + OnDen(b, l), l)
RMul(a, b) ==
    LET x == R(a[1], b[2])
        y == R(b[1], a[2])
    IN  <<x[1] * y[1], x[2] * y[2]>>
RDivInt(a, k) == RMul(a, R(1, k))
RGt(a, b) == LET l == LCM(a[2], b[2]) IN OnDen(a, l) > OnDen(b, l)
RGe(a, b) == LET l == LCM(a[2], b[2]) IN OnDen(a, l) >= OnDen(b, l)
RLe(a, b) == ~RGt(a, b)
RSub(a, b) == RAdd(a, <<-b[1], b[2]>>)
\* The largest integer <= a.
Floor(a) == a[1] \div a[2]
Zero == R(0, 1)

\* The first n elements of s (s[:n]).
Take(s, n) == SubSeq(s, 1, Min(n, Len(s)))

(***************************************************************************)
(* collections.Counter: a dict from key to count, kept as a sequence of    *)
(* <<key, count>> pairs in insertion order                                 *)
(***************************************************************************)
HasKey(c, key) == \E i \in 1..Len(c) : c[i][1] = key

CounterGet(c, key) ==
    IF HasKey(c, key) THEN c[CHOOSE i \in 1..Len(c) : c[i][1] = key][2] ELSE 0

\* Counter(iterable): every distinct element, in the order of its first
\* occurrence, with the number of its occurrences.
CounterOf(s) ==
    LET firsts == SelectSeq([i \in 1..Len(s) |-> i],
                            LAMBDA i : \A j \in 1..(i - 1) : s[j] # s[i])
    IN  [k \in 1..Len(firsts) |->
            <<s[firsts[k]], Cardinality({i \in 1..Len(s) : s[i] = s[firsts[k]]})>>]

IsPositive(e) == e[2] > 0

\* Mutant of CounterAdd: a dict update, the second table's count replaces
\* the first one's instead of being added to it.
CounterAdd_NoSum(a, b) ==
    [i \in 1..Len(a) |->
        <<a[i][1], IF HasKey(b, a[i][1]) THEN CounterGet(b, a[i][1]) ELSE a[i][2]>>]
    \o SelectSeq(b, LAMBDA e : ~HasKey(a, e[1]))

\* Counter.__add__: the keys of a in a's order with the counts summed, then
\* the keys only b has in b's order; only positive counts are kept.
CounterAdd(a, b) ==
    SelectSeq([i \in 1..Len(a) |-> <<a[i][1], a[i][2] + CounterGet(b, a[i][1])>>],
              IsPositive)
    \o SelectSeq(b, LAMBDA e : ~HasKey(a, e[1]) /\ IsPositive(e))

\* sorted(items, key=count, reverse=True): stable, equal counts keep their order.
RECURSIVE InsertByCount(_, _)
InsertByCount(sorted, x) ==
    IF sorted = <<>> THEN <<x>>
    ELSE IF Head(sorted)[2] >= x[2]
         THEN <<Head(sorted)>> \o InsertByCount(Tail(sorted), x)
         ELSE <<x>> \o sorted

RECURSIVE SortByCount(_)
SortByCount(c) ==
    IF c = <<>> THEN <<>>
    ELSE InsertByCount(SortByCount(SubSeq(c, 1, Len(c) - 1)), c[Len(c)])

\* Mutant of MostCommon: the first n keys in insertion order, unsorted.
MostCommon_Unsorted(c, n) == Take(c, n)

\* Counter.most_common(n) = heapq.nlargest(n, items, key=count), which is
\* sorted(items, key=count, reverse=True)[:n].
MostCommon(c, n) == Take(SortByCount(c), n)

(***************************************************************************)
(* DataProcessor                                                           *)
(***************************************************************************)
\* Mutant of AllOf: a string counted once per item however often the item
\* lists it.
RECURSIVE AllOf_OncePerItem(_, _)
AllOf_OncePerItem(d, key) ==
    IF d = <<>> THEN <<>>
    ELSE LET l == Get(Head(d), key, <<>>)
             first == SelectSeq([i \in 1..Len(l) |-> i],
                                LAMBDA i : \A j \in 1..(i - 1) : l[j] # l[i])
         IN  [k \in 1..Len(first) |-> l[first[k]]] \o AllOf_OncePerItem(Tail(d), key)

\* all_entities / all_hashtags: the lists of every item, concatenated.
RECURSIVE AllOf(_, _)
AllOf(d, key) ==
    IF d = <<>> THEN <<>>
    ELSE Get(Head(d), key, <<>>) \o AllOf(Tail(d), key)

InList(x, l) == \E i \in 1..Len(l) : l[i] = x

\* isinstance(x, dict)
IsDict(x) == "not_a_dict" \notin DOMAIN x

\* Mutant of FilterByRelevance: the comparison made strict.
FilterByRelevance_Strict(d, min_score) ==
    SelectSeq([i \in 1..Len(d) |-> i],
              LAMBDA i : RGt(Get(d[i], "relevance_score", Zero), min_score))

\* filter_by_relevance: the items kept, by their index in d.
FilterByRelevance(d, min_score) ==
    SelectSeq([i \in 1..Len(d) |-> i],
              LAMBDA i : RGe(Get(d[i], "relevance_score", Zero), min_score))

\* The engagement value filter_by_engagement appends for an item.
FilterEngagement(item) ==
    LET engagement == Get(item, "engagement", <<>>) IN
    IF IsDict(engagement) /\ "normalized_engagement" \in DOMAIN engagement
    THEN engagement["normalized_engagement"]
    ELSE IF IsDict(engagement) /\ "total_engagement" \in DOMAIN engagement
         THEN engagement["total_engagement"]
         ELSE Zero

EngagementValues(d) == [i \in 1..Len(d) |-> FilterEngagement(d[i])]

\* The values in ascending order.
RECURSIVE InsertAscending(_, _)
InsertAscending(sorted, x) ==
    IF sorted = <<>> THEN <<x>>
    ELSE IF RLe(Head(sorted), x)
         THEN <<Head(sorted)>> \o InsertAscending(Tail(sorted), x)
         ELSE <<x>> \o sorted

RECURSIVE SortAscending(_)
SortAscending(values) ==
    IF values = <<>> THEN <<>>
    ELSE InsertAscending(SortAscending(SubSeq(values, 1, Len(values) - 1)),
                         values[Len(values)])

\* Mutant of Quantile: the lower neighbour taken, without interpolation.
Quantile_Lower(values, q) ==
    SortAscending(values)[Floor(RMul(q, R(Len(values) - 1, 1))) + 1]

\* Mutant of Quantile: the nearer neighbour taken, without interpolation.
Quantile_Nearest(values, q) ==
    SortAscending(values)[Floor(RAdd(RMul(q, R(Len(values) - 1, 1)), R(1, 2))) + 1]

\* pd.Series(values).quantile(q), interpolation 'linear': the value at the
\* fractional position q * (n - 1) of the sorted values (positions from 0),
\* between its two neighbours in proportion to the fraction.
Quantile(values, q) ==
    LET sorted == SortAscending(values)
        n == Len(values)
        position == RMul(q, R(n - 1, 1))
        lower == Floor(position)
        upper == Min(lower + 1, n - 1)
        fraction == RSub(position, R(lower, 1))
    IN  RAdd(sorted[lower + 1],
             RMul(RSub(sorted[upper + 1], sorted[lower + 1]), fraction))

\* The threshold of filter_by_engagement: the quantile of the engagement
\* values, 0 when there is none.
Threshold(values, q) == IF values # <<>> THEN Quantile(values, q) ELSE Zero

\* Mutant of FilterByEngagement: the items at or below the threshold kept.
FilterByEngagement_Below(d, q) ==
    IF d = <<>> THEN <<>>
    ELSE LET values == EngagementValues(d)
         IN  SelectSeq([i \in 1..Len(d) |-> i],
                       LAMBDA i : RLe(values[i], Threshold(values, q)))

\* Mutant of FilterByEngagement: the comparison made strict.
FilterByEngagement_Strict(d, q) ==
    IF d = <<>> THEN <<>>
    ELSE LET values == EngagementValues(d)
         IN  SelectSeq([i \in 1..Len(d) |-> i],
                       LAMBDA i : RGt(values[i], Threshold(values, q)))

\* filter_by_engagement: the items kept, by their index in d.
FilterByEngagement(d, q) ==
    IF d = <<>> THEN <<>>
    ELSE LET values == EngagementValues(d)
         IN  SelectSeq([i \in 1..Len(d) |-> i],
                       LAMBDA i : RGe(values[i], Threshold(values, q)))

\* The engagement value extract_trending_topics adds for an item.
TrendEngagement(item) ==
    LET engagement == Get(item, "engagement", <<>>) IN
    IF IsDict(engagement)
    THEN IF "normalized_engagement" \in DOMAIN engagement
         THEN engagement["normalized_engagement"]
         ELSE IF "total_engagement" \in DOMAIN engagement
              THEN engagement["total_engagement"]
              ELSE Zero
    ELSE Zero

\* Mutant of IsRelated: the hashtags forgotten.
IsRelated_EntitiesOnly(item, t) == InList(t, Get(item, "entities", <<>>))

IsRelated(item, t) ==
    \/ InList(t, Get(item, "entities", <<>>))
    \/ InList(t, Get(item, "hashtags", <<>>))

RelatedItems(d, t) == SelectSeq(d, LAMBDA item : IsRelated(item, t))

RECURSIVE EngagementSum(_)
EngagementSum(items) ==
    IF items = <<>> THEN Zero
    ELSE RAdd(EngagementSum(SubSeq(items, 1, Len(items) - 1)),
              TrendEngagement(items[Len(items)]))

AvgEngagement(related) ==
    IF related = <<>> THEN Zero
    ELSE RMul(EngagementSum(related), R(1, Len(related)))

\* list(set(xs)): the distinct elements of xs in the order h, a sequence
\* without repetition that lists every string (the process's hash order).
ListOfSet(S, h) == SelectSeq(h, LAMBDA x : x \in S)

TrendingTopic(d, entry, h) ==
    LET related == RelatedItems(d, entry[1]) IN
    [topic               |-> entry[1],
     count               |-> entry[2],
     avg_engagement      |-> AvgEngagement(related),
     sources             |->
         ListOfSet({Get(related[i], "source", "") : i \in 1..Len(related)}, h),
     related_items_count |-> Len(related)]

TrendingTopics(d, n, h) ==
    LET combined_counter ==
            CounterAdd(CounterOf(AllOf(d, "entities")), CounterOf(AllOf(d, "hashtags")))
        top == MostCommon(combined_counter, n)
    IN  [k \in 1..Len(top) |-> TrendingTopic(d, top[k], h)]

\* dict[key] = value: an existing key keeps its place, a new key is appended.
DictSet(d, key, value) ==
    IF HasKey(d, key)
    THEN [i \in 1..Len(d) |-> IF d[i][1] = key THEN <<key, value>> ELSE d[i]]
    ELSE Append(d, <<key, value>>)

\* most_common(10) in group_by_topic
TopEntitiesLimit == 10

OccursMoreThanOnce(e) == e[2] > 1

\* Mutant of TopEntities: the frequency test dropped.
TopEntities_AnyCount(d) ==
    LET top == MostCommon(CounterOf(AllOf(d, "entities")), TopEntitiesLimit)
    IN  [k \in 1..Len(top) |-> top[k][1]]

\* top_entities
TopEntities(d) ==
    LET top == SelectSeq(MostCommon(CounterOf(AllOf(d, "entities")), TopEntitiesLimit),
                         OccursMoreThanOnce)
    IN  [k \in 1..Len(top) |-> top[k][1]]

\* The items of d whose entities contain `entity`, in input order.
RECURSIVE ItemsWithEntity(_, _, _)
ItemsWithEntity(d, entity, i) ==
    IF i > Len(d) THEN <<>>
    ELSE (IF InList(entity, Get(d[i], "entities", <<>>)) THEN <<i>> ELSE <<>>)
         \o ItemsWithEntity(d, entity, i + 1)

\* topics after the loop over top_entities: items are held by reference,
\* named here by their index in d.
EntityClusters(d) ==
    LET top == TopEntities(d)
    IN  [k \in 1..Len(top) |-> <<top[k], ItemsWithEntity(d, top[k], 1)>>]

\* Mutant of ClassifiedItems: the clusters hold copies of the items, whose
\* id() is that of no item of the input.
ClassifiedItems_OfCopies(clusters) == {}

\* classified_items: the id() of every item of every cluster.
ClassifiedItems(clusters) == UNION {Range(clusters[k][2]) : k \in 1..Len(clusters)}

RECURSIVE Unclassified(_, _, _)
Unclassified(d, classified, i) ==
    IF i > Len(d) THEN <<>>
    ELSE (IF i \notin classified THEN <<i>> ELSE <<>>) \o Unclassified(d, classified, i + 1)

GroupByTopic(d) ==
    LET clusters == EntityClusters(d)
    IN  DictSet(clusters, "outros", Unclassified(d, ClassifiedItems(clusters), 1))

\* The free text of an item: content, else text, else caption, else "".
\* A text is held as the sequence of its sentences.
FreeText(item) ==
    IF "content" \in DOMAIN item THEN item["content"]
    ELSE IF "text" \in DOMAIN item THEN item["text"]
    ELSE IF "caption" \in DOMAIN item THEN item["caption"]
    ELSE <<>>

\* nltk.sent_tokenize(content): the sentences of a text, in order.
SentTokenize(content) == content

\* str.lower() of the topic strings.
Lower(t) == IF t \in {"Lula", "LULA", "lula"} THEN "lula" ELSE t

\* The sentences of the model: twelve long ones naming Lula, a short one
\* naming Lula, a long one naming lula in lower case, a long one naming
\* nobody, one of exactly five words naming Lula.
LongLulaSentences == <<"A", "B", "C", "D", "E", "F", "G", "H", "I", "J", "K", "L">>

SentenceTexts == LongLulaSentences \o <<"short", "lower", "other", "five">>

\* len(sentence.split())
WordCount(sentence) ==
    IF sentence = "short" THEN 3 ELSE IF sentence = "five" THEN 5 ELSE 8

\* The lower-cased names a sentence contains.
NamesIn(sentence) == IF sentence = "other" THEN {} ELSE {"lula"}

\* topic.lower() in sentence.lower()
Mentions(sentence, t) == Lower(t) \in NamesIn(sentence)

\* topic.lower() in content.lower()
TextMentions(content, t) == \E i \in 1..Len(content) : Mentions(content[i], t)

IsFactRelated(item, t) ==
    \/ InList(t, Get(item, "entities", <<>>))
    \/ InList(t, Get(item, "hashtags", <<>>))
    \/ TextMentions(FreeText(item), t)

\* sentences: for every related item, its sentences that mention the topic.
RECURSIVE RelevantSentences(_, _)
RelevantSentences(d, t) ==
    IF d = <<>> THEN <<>>
    ELSE (IF IsFactRelated(Head(d), t)
          THEN SelectSeq(SentTokenize(FreeText(Head(d))), LAMBDA x : Mentions(x, t))
          ELSE <<>>)
         \o RelevantSentences(Tail(d), t)

\* max_facts = min(len(filtered_sentences), 10)
MaxKeyFacts == 10

\* Mutant of IsLongEnough: a sentence of exactly 5 words accepted.
IsLongEnough_NonStrict(sentence) == WordCount(sentence) >= 5

IsLongEnough(sentence) == WordCount(sentence) > 5

\* unique_sentences = list(set(sentences)) lists the set in the order h.
ExtractKeyFacts(d, t, h) ==
    LET unique_sentences == ListOfSet(Range(RelevantSentences(d, t)), h)
        filtered_sentences == SelectSeq(unique_sentences, IsLongEnough)
    IN  Take(filtered_sentences, Min(Len(filtered_sentences), MaxKeyFacts))

\* topic["key_facts"] = key_facts
WithKeyFacts(t, facts) ==
    [topic               |-> t.topic,
     count               |-> t.count,
     avg_engagement      |-> t.avg_engagement,
     sources             |-> t.sources,
     related_items_count |-> t.related_items_count,
     key_facts           |-> facts]

\* The items of d at the indices listed in kept.
ItemsAt(d, kept) == [k \in 1..Len(kept) |-> d[kept[k]]]

\* load_data: the value the file holds; [] when opening or parsing raises
\* and when len(data) raises in the log line (a value without a length).
LoadData(file) ==
    IF file.kind = "json" /\ file.value.type \in {"list", "object", "string"}
    THEN file.value
    ELSE [type |-> "list", elements |-> <<>>]

\* all_data after all_data.extend(load_data(file_path)) for every file.
RECURSIVE AllData(_)
AllData(files) ==
    IF files = <<>> THEN <<>>
    ELSE AllData(SubSeq(files, 1, Len(files) - 1)) \o LoadData(files[Len(files)]).elements

\* consolidate_data after the file reading, in three parts.
\* Items are named by their index in all_data.
\* filtered_data: filter_by_relevance, then filter_by_engagement at its
\* default percentile 0.3.
ConsolidateFilter(all_data, min_score) ==
    LET by_relevance == FilterByRelevance(all_data, min_score)
        by_engagement == FilterByEngagement(ItemsAt(all_data, by_relevance), R(3, 10))
    IN  ItemsAt(by_relevance, by_engagement)

\* grouped_data: the clusters of the filtered items.
ConsolidateGroup(all_data, kept) ==
    LET grouped == GroupByTopic(ItemsAt(all_data, kept))
    IN  [k \in 1..Len(grouped) |-> <<grouped[k][1], ItemsAt(kept, grouped[k][2])>>]

\* trending_topics (top_n at its default 5) with their key facts.  h and hs
\* are the orders in which the process lists a set of sources and a set of
\* sentences.
ConsolidateTrending(filtered_items, h, hs) ==
    LET trending == TrendingTopics(filtered_items, 5, h)
    IN  [k \in 1..Len(trending) |->
            WithKeyFacts(trending[k],
                         ExtractKeyFacts(filtered_items, trending[k].topic, hs))]

(***************************************************************************)
(* InsightGenerator                                                        *)
(***************************************************************************)
\* METRICS_CONFIG["trending_threshold"] = 0.7
trending_threshold == R(7, 10)

\* count * 0.6 + avg_engagement * 0.4
TrendScore(t) ==
    RAdd(RMul(R(Get(t, "count", 0), 1), R(6, 10)),
         RMul(Get(t, "avg_engagement", Zero), R(4, 10)))

\* Mutant of TrendStatus: the comparisons made non-strict.
TrendStatus_NonStrict(trend_score) ==
    IF RGe(trend_score, trending_threshold) THEN "Alta"
    ELSE IF RGe(trend_score, RDivInt(trending_threshold, 2)) THEN "Media"
    ELSE "Baixa"

TrendStatus(trend_score) ==
    IF RGt(trend_score, trending_threshold) THEN "Alta"
    ELSE IF RGt(trend_score, RDivInt(trending_threshold, 2)) THEN "Media"
    ELSE "Baixa"

Insight(t) ==
    [topic        |-> Get(t, "topic", ""),
     mentions     |-> Get(t, "count", 0),
     engagement   |-> Get(t, "avg_engagement", Zero),
     trend_score  |-> TrendScore(t),
     trend_status |-> TrendStatus(TrendScore(t)),
     sources      |-> Get(t, "sources", <<>>),
     key_facts    |-> Get(t, "key_facts", <<>>)]

\* Mutant of InsertByScore: x put before the elements of equal key.
RECURSIVE InsertByScore_BeforeEqual(_, _)
InsertByScore_BeforeEqual(sorted, x) ==
    IF sorted = <<>> THEN <<x>>
    ELSE IF RGt(Head(sorted).trend_score, x.trend_score)
         THEN <<Head(sorted)>> \o InsertByScore_BeforeEqual(Tail(sorted), x)
         ELSE <<x>> \o sorted

\* list.sort(key=trend_score, reverse=True): a stable sort, equal keys keep
\* their order.  Insert x after every element whose key is >= x's key.
RECURSIVE InsertByScore(_, _)
InsertByScore(sorted, x) ==
    IF sorted = <<>> THEN <<x>>
    ELSE IF RGe(Head(sorted).trend_score, x.trend_score)
         THEN <<Head(sorted)>> \o InsertByScore(Tail(sorted), x)
         ELSE <<x>> \o sorted

RECURSIVE SortByScore(_)
SortByScore(s) ==
    IF s = <<>> THEN <<>>
    ELSE InsertByScore(SortByScore(SubSeq(s, 1, Len(s) - 1)), s[Len(s)])

TopicInsights(tt) == SortByScore([i \in 1..Len(tt) |-> Insight(tt[i])])

\* The two list comprehensions of generate_content_recommendations.
InHighBand(t) == RGt(TrendScore(t), trending_threshold)

\* Mutant of InMediumBand: the upper limit of the medium band dropped.
InMediumBand_NoUpper(t) == RGt(TrendScore(t), RDivInt(trending_threshold, 2))

InMediumBand(t) ==
    /\ RGt(TrendScore(t), RDivInt(trending_threshold, 2))
    /\ RLe(TrendScore(t), trending_threshold)

\* Mutant of HighPriority: off by one.
HighPriority_OffByOne(facts) == IF Len(facts) > 3 THEN "Alta" ELSE "Media"

HighPriority(facts) == IF Len(facts) >= 3 THEN "Alta" ELSE "Media"

HighRecommendation(t) ==
    [topic          |-> Get(t, "topic", ""),
     key_facts      |-> Get(t, "key_facts", <<>>),
     recommendation |-> "Criar",
     priority       |-> HighPriority(Get(t, "key_facts", <<>>))]

\* Mutant of MediumGate: three key facts asked for.
MediumGate_ThreeFacts(t) == Len(Get(t, "key_facts", <<>>)) >= 3

MediumGate(t) == Len(Get(t, "key_facts", <<>>)) >= 2

MediumRecommendation(t) ==
    [topic          |-> Get(t, "topic", ""),
     key_facts      |-> Get(t, "key_facts", <<>>),
     recommendation |-> "Considerar",
     priority       |-> "Media"]

InMediumBandWithFacts(t) == InMediumBand(t) /\ MediumGate(t)

ContentRecommendations(tt) ==
    LET high   == SelectSeq(tt, InHighBand)
        medium == SelectSeq(tt, InMediumBandWithFacts)
    IN  [k \in 1..Len(high) |-> HighRecommendation(high[k])]
        \o [k \in 1..Len(medium) |-> MediumRecommendation(medium[k])]

\* METRICS_CONFIG["engagement_threshold"] = 0.5
engagement_threshold == R(1, 2)

\* Mutant of AllItems: an item that is in several clusters taken once.
RECURSIVE AllItems_Unique(_)
AllItems_Unique(tp) ==
    IF tp = <<>> THEN <<>>
    ELSE LET rest == AllItems_Unique(Tail(tp))
         IN  SelectSeq(Head(tp)[2], LAMBDA i : i \notin Range(rest)) \o rest

\* all_items: the members of every cluster of data["topics"], cluster after
\* cluster.  A member is named by its index in d.
RECURSIVE AllItems(_)
AllItems(tp) == IF tp = <<>> THEN <<>> ELSE Head(tp)[2] \o AllItems(Tail(tp))

\* Mutant of SourceOf: a missing source taken as the empty string.
SourceOf_Empty(item) == Get(item, "source", "")

\* item.get("source", "Desconhecido")
SourceOf(item) == Get(item, "source", "Desconhecido")

\* generate_source_distribution: a dict from source to count and percentage,
\* in the order the sources are first met.
SourceDistribution(d, tp) ==
    LET all_items == AllItems(tp)
        source_counts == CounterOf([k \in 1..Len(all_items) |-> SourceOf(d[all_items[k]])])
        total_items == Len(all_items)
    IN  [k \in 1..Len(source_counts) |->
            <<source_counts[k][1],
              [count      |-> source_counts[k][2],
               percentage |-> IF total_items > 0
                              THEN RMul(R(source_counts[k][2], total_items), R(100, 1))
                              ELSE Zero]>>]

\* Mutant of MetricsEngagement: total_engagement read before
\* normalized_engagement.
MetricsEngagement_TotalFirst(item) ==
    LET engagement == Get(item, "engagement", <<>>) IN
    IF IsDict(engagement)
    THEN IF "total_engagement" \in DOMAIN engagement
         THEN engagement["total_engagement"]
         ELSE IF "normalized_engagement" \in DOMAIN engagement
              THEN engagement["normalized_engagement"]
              ELSE Zero
    ELSE Zero

\* engagement_value in generate_engagement_metrics
MetricsEngagement(item) ==
    LET engagement == Get(item, "engagement", <<>>) IN
    IF IsDict(engagement)
    THEN IF "normalized_engagement" \in DOMAIN engagement
         THEN engagement["normalized_engagement"]
         ELSE IF "total_engagement" \in DOMAIN engagement
              THEN engagement["total_engagement"]
              ELSE Zero
    ELSE Zero

\* The row a source gets when it is first met.
NewMetrics ==
    [total_items |-> 0, total_engagement |-> Zero, avg_engagement |-> Zero,
     high_engagement_items |-> 0]

DictGet(d, key, default) ==
    IF HasKey(d, key) THEN d[CHOOSE i \in 1..Len(d) : d[i][1] = key][2] ELSE default

\* Mutant of IsHighEngagement: a value equal to the threshold counted.
IsHighEngagement_NonStrict(engagement_value) ==
    RGe(engagement_value, engagement_threshold)

IsHighEngagement(engagement_value) == RGt(engagement_value, engagement_threshold)

\* One turn of the loop over all_items.
AddToSource(by_source, item) ==
    LET source == SourceOf(item)
        metrics == DictGet(by_source, source, NewMetrics)
        engagement_value == MetricsEngagement(item)
    IN  DictSet(by_source, source,
            [metrics EXCEPT
                !.total_items = @ + 1,
                !.total_engagement = RAdd(@, engagement_value),
                !.high_engagement_items =
                    IF IsHighEngagement(engagement_value) THEN @ + 1 ELSE @])

RECURSIVE EngagementBySource(_, _)
EngagementBySource(d, all_items) ==
    IF all_items = <<>> THEN <<>>
    ELSE AddToSource(EngagementBySource(d, SubSeq(all_items, 1, Len(all_items) - 1)),
                     d[all_items[Len(all_items)]])

\* The loop that fills in the averages.
WithAverages(metrics) ==
    [total_items                |-> metrics.total_items,
     total_engagement           |-> metrics.total_engagement,
     high_engagement_items      |-> metrics.high_engagement_items,
     avg_engagement             |->
         IF metrics.total_items > 0
         THEN RDivInt(metrics.total_engagement, metrics.total_items)
         ELSE Zero,
     high_engagement_percentage |->
         IF metrics.total_items > 0
         THEN RMul(R(metrics.high_engagement_items, metrics.total_items), R(100, 1))
         ELSE Zero]

EngagementMetrics(d, tp) ==
    LET by_source == EngagementBySource(d, AllItems(tp))
    IN  [k \in 1..Len(by_source) |-> <<by_source[k][1], WithAverages(by_source[k][2])>>]

(***************************************************************************)
(* Specification SpecInsight: the InsightGenerator operations applied to   *)
(* a bounded family of trending_topics lists                               *)
(***************************************************************************)
MaxTopics == 2

TopicNames == <<"Lula", "Dilma", "Bolsonaro", "Marina">>
FactTexts == <<"f1", "f2", "f3", "f4">>

Counts == 0..1
FactCounts == 0..3

\* Average engagements that put count*0.6 + avg*0.4 on, just above and
\* between the band limits 0.35 and 0.7 (for each of these inputs the double
\* arithmetic of the code gives the same status and band as the exact one):
\*   count 0: -0.25, 0.1, 0.10001, 0.15, 0.5
\*   count 1:  0.35, 0.7, 0.70001, 0.75, 1.1
AvgValues == {R(-5, 8), R(1, 4), R(10001, 40000), R(3, 8), R(5, 4)}

TopicDict(i, c, a, f) ==
    [topic |-> TopicNames[i], count |-> c, avg_engagement |-> a,
     sources |-> <<"G1">>, related_items_count |-> c,
     key_facts |-> SubSeq(FactTexts, 1, f)]

TopicLists ==
    UNION {[1..n -> Counts \X AvgValues \X FactCounts] : n \in 0..MaxTopics}

InitInsight ==
    /\ pc = "ready"
    /\ data = <<>>
    /\ topic = ""
    /\ top_n = 0
    /\ \E l \in TopicLists :
          trending_topics =
              [i \in 1..Len(l) |-> TopicDict(i, l[i][1], l[i][2], l[i][3])]
    /\ topics = <<>>
    /\ key_facts = <<>>
    /\ topic_insights = <<>>
    /\ recommendations = <<>>
    /\ min_relevance_score = Zero
    /\ min_percentile = Zero
    /\ engagement_values = <<>>
    /\ filtered_data = <<>>
    /\ source_distribution = <<>>
    /\ engagement_metrics = <<>>
    /\ runs = 0
    /\ previous_run = <<>>
    /\ threshold = <<>>
    /\ data_files = <<>>
    /\ args = <<>>
    /\ env = <<>>
    /\ reports = <<>>
    /\ returned = ""

generate_topic_insights ==
    /\ pc = "ready"
    /\ topic_insights' = TopicInsights(trending_topics)
    /\ pc' = "generate_topic_insights"
    /\ UNCHANGED <<data, topic, top_n, trending_topics, topics, key_facts,
                   recommendations, min_relevance_score, min_percentile,
                   engagement_values, filtered_data, source_distribution,
                   engagement_metrics, runs, previous_run, threshold,
                   data_files, args, env, reports, returned>>

generate_content_recommendations ==
    /\ pc = "ready"
    /\ recommendations' = ContentRecommendations(trending_topics)
    /\ pc' = "generate_content_recommendations"
    /\ UNCHANGED <<data, topic, top_n, trending_topics, topics, key_facts,
                   topic_insights, min_relevance_score, min_percentile,
                   engagement_values, filtered_data, source_distribution,
                   engagement_metrics, runs, previous_run, threshold,
                   data_files, args, env, reports, returned>>

NextInsight == generate_topic_insights \/ generate_content_recommendations

SpecInsight == InitInsight /\ [][NextInsight]_vars

(***************************************************************************)
(* Claims about InsightGenerator (checked under SpecInsight)               *)
(***************************************************************************)
\* The score of a topic dict as the claims state it, count*0.6 + avg*0.4,
\* over the common denominator 10*den: <<6*count*den + 4*num, 10*den>>.
ScoreNum(t) == 6 * t.count * t.avg_engagement[2] + 4 * t.avg_engagement[1]
ScoreDen(t) == 10 * t.avg_engagement[2]

\* score > 0.7, score > 0.35, score = p/q
Above70(t) == 10 * ScoreNum(t) > 7 * ScoreDen(t)
Above35(t) == 20 * ScoreNum(t) > 7 * ScoreDen(t)
ScoreIs(t, p, q) == q * ScoreNum(t) = p * ScoreDen(t)

RecsFor(name) ==
    {k \in 1..Len(recommendations) : recommendations[k].topic = name}

C1Emits(t) ==
    \/ Above70(t)
    \/ Above35(t) /\ ~Above70(t) /\ Len(t.key_facts) >= 2

\* C1: generate_content_recommendations emits exactly one recommendation for
\* a topic with trend_score > trending_threshold, or with
\* trending_threshold/2 < trend_score <= trending_threshold and at least 2 key
\* facts, and none for any other topic; no topic is recommended twice.
C1_OneRecommendationPerQualifyingTopic ==
    pc = "generate_content_recommendations" =>
        /\ \A i \in 1..Len(trending_topics) :
              Cardinality(RecsFor(trending_topics[i].topic))
                  = IF C1Emits(trending_topics[i]) THEN 1 ELSE 0
        /\ \A k \in 1..Len(recommendations) :
              \E i \in 1..Len(trending_topics) :
                  recommendations[k].topic = trending_topics[i].topic

\* A high-band topic with 2 facts is recommended once and a medium-band topic
\* with 1 fact is dropped.
C1_Witness ==
    /\ pc = "generate_content_recommendations"
    /\ Len(trending_topics) = 2
    /\ Above70(trending_topics[1]) /\ Len(trending_topics[1].key_facts) = 2
    /\ Above35(trending_topics[2]) /\ ~Above70(trending_topics[2])
    /\ Len(trending_topics[2].key_facts) = 1
    /\ Len(recommendations) = 1

\* C2: a recommendation has priority Alta exactly when its topic is in the
\* high band and has at least 3 key facts, every other one has Media; 3 facts
\* at trend_score 0.75 give Alta and 1 fact at trend_score 0.5 gives nothing.
C2_PriorityAltaIffHighBandAndThreeFacts ==
    pc = "generate_content_recommendations" =>
        \A i \in 1..Len(trending_topics) :
            LET t == trending_topics[i] IN
            /\ \A k \in RecsFor(t.topic) :
                  recommendations[k].priority =
                      IF Above70(t) /\ Len(t.key_facts) >= 3 THEN "Alta" ELSE "Media"
            /\ ScoreIs(t, 3, 4) /\ Len(t.key_facts) = 3 =>
                  \E k \in RecsFor(t.topic) : recommendations[k].priority = "Alta"
            /\ ScoreIs(t, 1, 2) /\ Len(t.key_facts) = 1 => RecsFor(t.topic) = {}

C2_Witness ==
    /\ pc = "generate_content_recommendations"
    /\ Len(trending_topics) = 2
    /\ ScoreIs(trending_topics[1], 3, 4) /\ Len(trending_topics[1].key_facts) = 3
    /\ ScoreIs(trending_topics[2], 1, 2) /\ Len(trending_topics[2].key_facts) = 1
    /\ Len(recommendations) = 1
    /\ recommendations[1].priority = "Alta"

\* C3: generate_topic_insights sets trend_status with strict comparisons:
\* Alta iff trend_score > 0.7, Media iff 0.35 < trend_score <= 0.7, Baixa iff
\* trend_score <= 0.35; so 0.7 is Media, 0.70001 is Alta and 0.35 is Baixa.
C3_TrendStatusStrictBands ==
    pc = "generate_topic_insights" =>
        \A k \in 1..Len(topic_insights) :
            LET n == topic_insights[k].trend_score[1]
                d == topic_insights[k].trend_score[2]
                status == topic_insights[k].trend_status
            IN  /\ status \in {"Alta", "Media", "Baixa"}
                /\ status = "Alta" <=> 10 * n > 7 * d
                /\ status = "Media" <=> (20 * n > 7 * d /\ 10 * n <= 7 * d)
                /\ status = "Baixa" <=> 20 * n <= 7 * d
                /\ topic_insights[k].trend_score = <<7, 10>> => status = "Media"
                /\ topic_insights[k].trend_score = <<70001, 100000>> => status = "Alta"
                /\ topic_insights[k].trend_score = <<7, 20>> => status = "Baixa"

\* A score of exactly 0.7 got Media and a score of exactly 0.35 got Baixa.
C3_Witness ==
    /\ pc = "generate_topic_insights"
    /\ \E j, k \in 1..Len(topic_insights) :
          /\ topic_insights[j].trend_score = <<7, 10>>
          /\ topic_insights[j].trend_status = "Media"
          /\ topic_insights[k].trend_score = <<7, 20>>
          /\ topic_insights[k].trend_status = "Baixa"

\* The place of the topic called `name` in trending_topics.
PositionOf(name) ==
    CHOOSE i \in 1..Len(trending_topics) : trending_topics[i].topic = name

\* a >= b for the scores <<num, den>> of two insights, over the common
\* denominator.
ScoreAtLeast(a, b) ==
    LET l == LCM(a[2], b[2]) IN a[1] * (l \div a[2]) >= b[1] * (l \div b[2])

\* C19: generate_topic_insights returns one insight per entry of
\* trending_topics, none added or dropped, in descending order of
\* trend_score, insights of equal trend_score in the order their topics have
\* in trending_topics.
C19_InsightsSortedByScoreStable ==
    pc = "generate_topic_insights" =>
        /\ Len(topic_insights) = Len(trending_topics)
        /\ \A i \in 1..Len(trending_topics) :
              \E k \in 1..Len(topic_insights) :
                  /\ topic_insights[k].topic = trending_topics[i].topic
                  /\ topic_insights[k].mentions = trending_topics[i].count
                  /\ topic_insights[k].key_facts = trending_topics[i].key_facts
                  /\ topic_insights[k].trend_score =
                        R(ScoreNum(trending_topics[i]), ScoreDen(trending_topics[i]))
        /\ \A j, k \in 1..Len(topic_insights) :
              j < k =>
                  /\ ScoreAtLeast(topic_insights[j].trend_score, topic_insights[k].trend_score)
                  /\ topic_insights[j].trend_score = topic_insights[k].trend_score
                        => PositionOf(topic_insights[j].topic)
                               < PositionOf(topic_insights[k].topic)

\* Two topics of equal score keep their order.
C19_Witness ==
    /\ pc = "generate_topic_insights"
    /\ Len(trending_topics) = 2
    /\ Len(topic_insights) = 2
    /\ topic_insights[1].trend_score = topic_insights[2].trend_score
    /\ topic_insights[1].topic = trending_topics[1].topic
    /\ topic_insights[2].topic = trending_topics[2].topic

(***************************************************************************)
(* Specification SpecTrend: extract_trending_topics applied to a bounded   *)
(* family of item lists                                                    *)
(***************************************************************************)
MaxItems == 2

EntityLists == <<<<>>, <<"Lula">>, <<"Dilma">>, <<"Lula", "Dilma", "Lula">>>>

HashtagLists == <<<<>>, <<"Bolsonaro">>, <<"Lula", "Bolsonaro">>>>

\* engagement dicts: both keys, total_engagement only, no key.
Engagements ==
    <<[normalized_engagement |-> R(1, 5), total_engagement |-> R(30, 1)],
      [total_engagement |-> R(3, 1)],
      <<>>>>

TopNs == {1, 2, 5}

\* An item of a collector: the news site has no hashtags.
TrendItem(e, h, g) ==
    [source     |-> IF HashtagLists[h] = <<>> THEN "G1" ELSE "Twitter",
     entities   |-> EntityLists[e],
     hashtags   |-> HashtagLists[h],
     engagement |-> Engagements[g]]

TrendItemChoices ==
    (1..Len(EntityLists)) \X (1..Len(HashtagLists)) \X (1..Len(Engagements))

TrendItemLists == UNION {[1..n -> TrendItemChoices] : n \in 0..MaxItems}

\* The sequences listing every element of S once.
Orders(S) ==
    {f \in [1..Cardinality(S) -> S] : \A i, j \in DOMAIN f : f[i] = f[j] => i = j}

SourceNames == {"G1", "Twitter"}

InitTrend ==
    /\ pc = "ready"
    /\ \E l \in TrendItemLists :
          data = [i \in 1..Len(l) |-> TrendItem(l[i][1], l[i][2], l[i][3])]
    /\ topic = ""
    /\ top_n \in TopNs
    /\ trending_topics = <<>>
    /\ topics = <<>>
    /\ key_facts = <<>>
    /\ topic_insights = <<>>
    /\ recommendations = <<>>
    /\ min_relevance_score = Zero
    /\ min_percentile = Zero
    /\ engagement_values = <<>>
    /\ filtered_data = <<>>
    /\ source_distribution = <<>>
    /\ engagement_metrics = <<>>
    /\ runs = 0
    /\ previous_run = <<>>
    /\ threshold = <<>>
    /\ data_files = <<>>
    /\ args = <<>>
    /\ env = <<>>
    /\ reports = <<>>
    /\ returned = ""

extract_trending_topics ==
    /\ pc = "ready"
    /\ \E h \in Orders({Get(data[i], "source", "") : i \in 1..Len(data)}) :
          trending_topics' = TrendingTopics(data, top_n, h)
    /\ pc' = "extract_trending_topics"
    /\ UNCHANGED <<data, topic, top_n, topics, key_facts, topic_insights,
                   recommendations, min_relevance_score, min_percentile,
                   engagement_values, filtered_data, source_distribution,
                   engagement_metrics, runs, previous_run, threshold,
                   data_files, args, env, reports, returned>>

NextTrend == extract_trending_topics

SpecTrend == InitTrend /\ [][NextTrend]_vars

(***************************************************************************)
(* Claims about extract_trending_topics (checked under SpecTrend)          *)
(***************************************************************************)
Occurrences(l, x) == Cardinality({i \in 1..Len(l) : l[i] = x})

\* The occurrences of x in the `key` lists of all items, item by item.
RECURSIVE OccurrencesIn(_, _, _)
OccurrencesIn(d, key, x) ==
    IF d = <<>> THEN 0
    ELSE Occurrences(Head(d)[key], x) + OccurrencesIn(Tail(d), key, x)

MergedCount(x) == OccurrencesIn(data, "entities", x) + OccurrencesIn(data, "hashtags", x)

ReturnedTopics == {trending_topics[k].topic : k \in 1..Len(trending_topics)}

CountOf(x) ==
    trending_topics[CHOOSE k \in 1..Len(trending_topics) : trending_topics[k].topic = x].count

\* C4: the count recorded for a topic is the number of its occurrences in all
\* items' entity lists plus the number of its occurrences in all items'
\* hashtag lists; entities [Lula, Dilma, Lula] and hashtags [Lula, Bolsonaro]
\* give Lula = 3, Dilma = 1, Bolsonaro = 1.
C4_CountIsEntityPlusHashtagOccurrences ==
    pc = "extract_trending_topics" =>
        /\ \A k \in 1..Len(trending_topics) :
              trending_topics[k].count = MergedCount(trending_topics[k].topic)
        /\ ( /\ AllOf(data, "entities") = <<"Lula", "Dilma", "Lula">>
             /\ AllOf(data, "hashtags") = <<"Lula", "Bolsonaro">>
             /\ top_n = 5 )
           => /\ ReturnedTopics = {"Lula", "Dilma", "Bolsonaro"}
              /\ CountOf("Lula") = 3
              /\ CountOf("Dilma") = 1
              /\ CountOf("Bolsonaro") = 1

C4_Witness ==
    /\ pc = "extract_trending_topics"
    /\ AllOf(data, "entities") = <<"Lula", "Dilma", "Lula">>
    /\ AllOf(data, "hashtags") = <<"Lula", "Bolsonaro">>
    /\ top_n = 5
    /\ Len(trending_topics) = 3
    /\ trending_topics[1].topic = "Lula" /\ trending_topics[1].count = 3

\* The order in which the merged table sees the tokens: every entity
\* occurrence of every item, then every hashtag occurrence.
SeenOrder == AllOf(data, "entities") \o AllOf(data, "hashtags")

FirstSeen(x) == CHOOSE i \in 1..Len(SeenOrder) :
                    SeenOrder[i] = x /\ \A j \in 1..(i - 1) : SeenOrder[j] # x

DistinctTokens == Range(SeenOrder)

\* x ranks before y: larger merged count, or equal count and seen first.
RanksBefore(x, y) ==
    \/ MergedCount(x) > MergedCount(y)
    \/ MergedCount(x) = MergedCount(y) /\ FirstSeen(x) < FirstSeen(y)

\* C5: extract_trending_topics returns min(top_n, number of distinct tokens)
\* candidates with pairwise distinct topics, in descending order of merged
\* count, equal counts in first-seen order (entity occurrences are seen
\* before hashtag occurrences); no omitted token ranks before a returned one;
\* entities [Lula, Dilma, Lula], hashtags [Lula, Bolsonaro], top_n = 2 give
\* [Lula, Dilma].
C5_TopNByCountTiesFirstSeen ==
    pc = "extract_trending_topics" =>
        /\ Len(trending_topics) = Min(top_n, Cardinality(DistinctTokens))
        /\ ReturnedTopics \subseteq DistinctTokens
        /\ \A j, k \in 1..Len(trending_topics) :
              j < k => RanksBefore(trending_topics[j].topic, trending_topics[k].topic)
        /\ \A x \in DistinctTokens \ ReturnedTopics :
              \A y \in ReturnedTopics : MergedCount(x) <= MergedCount(y) /\ RanksBefore(y, x)
        /\ ( /\ AllOf(data, "entities") = <<"Lula", "Dilma", "Lula">>
             /\ AllOf(data, "hashtags") = <<"Lula", "Bolsonaro">>
             /\ top_n = 2 )
           => [k \in 1..Len(trending_topics) |-> trending_topics[k].topic]
                  = <<"Lula", "Dilma">>

C5_Witness ==
    /\ pc = "extract_trending_topics"
    /\ AllOf(data, "entities") = <<"Lula", "Dilma", "Lula">>
    /\ AllOf(data, "hashtags") = <<"Lula", "Bolsonaro">>
    /\ top_n = 2
    /\ Len(trending_topics) = 2
    /\ trending_topics[2].topic = "Dilma"

RelatedIdx(x) ==
    {i \in 1..Len(data) :
        x \in Range(data[i].entities) \/ x \in Range(data[i].hashtags)}

\* The engagement value of item i: normalized_engagement if present, else
\* total_engagement if present, else 0.
EngagementValue(i) ==
    LET e == data[i].engagement IN
    IF "normalized_engagement" \in DOMAIN e THEN e.normalized_engagement
    ELSE IF "total_engagement" \in DOMAIN e THEN e.total_engagement
    ELSE <<0, 1>>

RECURSIVE SumOver(_)
SumOver(I) ==
    IF I = {} THEN <<0, 1>>
    ELSE LET i == CHOOSE j \in I : TRUE
             rest == SumOver(I \ {i})
             v == EngagementValue(i)
         IN  <<rest[1] * v[2] + v[1] * rest[2], rest[2] * v[2]>>

\* a = b / n for fractions a, b (not necessarily in lowest terms) and n > 0
IsQuotient(a, b, n) == a[1] * b[2] * n = b[1] * a[2]

\* C6: for every candidate, the related items are the items whose entity or
\* hashtag list contains the topic: related_items_count is their number,
\* sources the set of their distinct sources, avg_engagement the sum of their
\* engagement values divided by their number.
C6_RelatedItemsCountSourcesAverage ==
    pc = "extract_trending_topics" =>
        \A k \in 1..Len(trending_topics) :
            LET t == trending_topics[k]
                I == RelatedIdx(t.topic)
            IN  /\ t.related_items_count = Cardinality(I)
                /\ Range(t.sources) = {data[i].source : i \in I}
                /\ Len(t.sources) = Cardinality(Range(t.sources))
                /\ IF I = {} THEN t.avg_engagement = <<0, 1>>
                   ELSE IsQuotient(t.avg_engagement, SumOver(I), Cardinality(I))

\* Two related items of different sources and different engagement values,
\* one related through an entity and one through a hashtag only.
C6_Witness ==
    /\ pc = "extract_trending_topics"
    /\ Len(data) = 2
    /\ \E k \in 1..Len(trending_topics) :
          /\ trending_topics[k].topic = "Lula"
          /\ "Lula" \in Range(data[1].entities) /\ "Lula" \notin Range(data[1].hashtags)
          /\ "Lula" \notin Range(data[2].entities) /\ "Lula" \in Range(data[2].hashtags)
          /\ trending_topics[k].related_items_count = 2
          /\ trending_topics[k].sources = <<"Twitter", "G1">>
          /\ trending_topics[k].avg_engagement = <<8, 5>>

(***************************************************************************)
(* Specification SpecGroup: group_by_topic applied to a bounded family of  *)
(* item lists                                                              *)
(***************************************************************************)
MaxGroupItems == 3

\* Eleven entities, so that two such items give more repeated entities than
\* most_common(10) keeps.
ManyEntities ==
    <<"E01", "E02", "E03", "E04", "E05", "E06", "E07", "E08", "E09", "E10", "E11">>

GroupEntityLists ==
    <<<<>>, <<"Lula">>, <<"Dilma", "Lula">>, <<"outros">>, ManyEntities,
      <<"E11", "Lula", "E11">>>>

GroupItem(e) == [source |-> "G1", entities |-> GroupEntityLists[e]]

GroupItemLists == UNION {[1..n -> 1..Len(GroupEntityLists)] : n \in 0..MaxGroupItems}

InitGroup ==
    /\ pc = "ready"
    /\ \E l \in GroupItemLists : data = [i \in 1..Len(l) |-> GroupItem(l[i])]
    /\ topic = ""
    /\ top_n = 0
    /\ trending_topics = <<>>
    /\ topics = <<>>
    /\ key_facts = <<>>
    /\ topic_insights = <<>>
    /\ recommendations = <<>>
    /\ min_relevance_score = Zero
    /\ min_percentile = Zero
    /\ engagement_values = <<>>
    /\ filtered_data = <<>>
    /\ source_distribution = <<>>
    /\ engagement_metrics = <<>>
    /\ runs = 0
    /\ previous_run = <<>>
    /\ threshold = <<>>
    /\ data_files = <<>>
    /\ args = <<>>
    /\ env = <<>>
    /\ reports = <<>>
    /\ returned = ""

group_by_topic ==
    /\ pc = "ready"
    /\ topics' = GroupByTopic(data)
    /\ pc' = "group_by_topic"
    /\ UNCHANGED <<data, topic, top_n, trending_topics, key_facts,
                   topic_insights, recommendations, min_relevance_score,
                   min_percentile, engagement_values, filtered_data,
                   source_distribution, engagement_metrics, runs,
                   previous_run, threshold, data_files, args, env, reports,
                   returned>>

NextGroup == group_by_topic

SpecGroup == InitGroup /\ [][NextGroup]_vars

(***************************************************************************)
(* Claims about group_by_topic (checked under SpecGroup)                   *)
(***************************************************************************)
EntityOrder == AllOf(data, "entities")

\* For every entity of the listing `order`: <<its frequency, the position of
\* its first occurrence>>.
EntityStats(order) ==
    [x \in Range(order) |->
        <<Occurrences(order, x),
          CHOOSE i \in 1..Len(order) : order[i] = x /\ \A j \in 1..(i - 1) : order[j] # x>>]

\* x is more frequent than y, or as frequent and seen first.
StatsRankBefore(stats, x, y) ==
    \/ stats[x][1] > stats[y][1]
    \/ stats[x][1] = stats[y][1] /\ stats[x][2] < stats[y][2]

\* Among the 10 most frequent entities, and occurring more than once.
SelectedFrom(stats) ==
    {x \in DOMAIN stats :
        /\ stats[x][1] > 1
        /\ Cardinality({y \in DOMAIN stats : StatsRankBefore(stats, y, x)}) < 10}

SelectedEntities == SelectedFrom(EntityStats(EntityOrder))

TopicKeys == [k \in 1..Len(topics) |-> topics[k][1]]

\* C7: the named topics (the keys of the result that name an entity: all of
\* them but the trailing 'outros' the function adds; when 'outros' is itself
\* a selected entity it is already a key and none is added) are exactly the
\* entities that are among the 10 most frequent and occur more than once, in
\* descending order of frequency, equal frequencies in first-seen order, and
\* never more than 10.
C7_NamedTopicsAreTopTenRepeatedEntities ==
    pc = "group_by_topic" =>
        LET stats == EntityStats(EntityOrder)
            selected == SelectedFrom(stats)
            keys == TopicKeys
            named == IF "outros" \in selected THEN keys
                     ELSE SubSeq(keys, 1, Len(keys) - 1)
        IN  /\ Len(keys) >= 1
            /\ "outros" \in Range(keys)
            /\ Range(named) = selected
            /\ Len(named) = Cardinality(selected)
            /\ Len(named) <= 10
            /\ \A j, k \in 1..Len(named) :
                  j < k => StatsRankBefore(stats, named[j], named[k])

\* Eleven entities occur more than once; the most frequent one, seen last,
\* comes first, and the least ranked one is left out.
C7_Witness ==
    /\ pc = "group_by_topic"
    /\ Len(data) = 3
    /\ data[1].entities = ManyEntities
    /\ data[2].entities = ManyEntities
    /\ data[3].entities = <<"E11", "Lula", "E11">>
    /\ Len(topics) = 11
    /\ topics[1][1] = "E11"
    /\ topics[10][1] = "E09"
    /\ topics[11][1] = "outros"

ClusterOf(x) == topics[CHOOSE k \in 1..Len(topics) : topics[k][1] = x][2]

IsCluster(x) == \E k \in 1..Len(topics) : topics[k][1] = x

ItemsMentioning(x) == {i \in 1..Len(data) : x \in Range(data[i].entities)}

\* The elements of a set of item indices in input order.
RECURSIVE Ascending(_)
Ascending(I) ==
    IF I = {} THEN <<>>
    ELSE LET m == CHOOSE i \in I : \A j \in I : i <= j
         IN  <<m>> \o Ascending(I \ {m})

\* C8: the cluster of each selected entity holds, in input order and once
\* each, exactly the items whose entity list contains that entity.
C8_ClusterHoldsItemsMentioningEntity ==
    pc = "group_by_topic" =>
        \A x \in SelectedEntities :
            IsCluster(x) /\ ClusterOf(x) = Ascending(ItemsMentioning(x))

\* The same, for the selected entities other than the token 'outros'.
C8_ExceptOutros ==
    pc = "group_by_topic" =>
        \A x \in SelectedEntities \ {"outros"} :
            IsCluster(x) /\ ClusterOf(x) = Ascending(ItemsMentioning(x))

\* The items that are in the cluster of some selected entity.
InSelectedClusters(selected) == UNION {ItemsMentioning(x) : x \in selected}

EveryItemInSomeCluster(selected) ==
    /\ \A i \in 1..Len(data) : \E k \in 1..Len(topics) : i \in Range(topics[k][2])
    /\ IsCluster("outros")
    /\ Range(ClusterOf("outros")) = (1..Len(data)) \ InSelectedClusters(selected)

\* C9: every input item is a member of at least one cluster of the result;
\* 'outros' holds exactly the items that are in no selected-entity cluster.
C9_EveryItemInSomeCluster ==
    pc = "group_by_topic" => EveryItemInSomeCluster(SelectedEntities)

\* The same, for the inputs where 'outros' is not a selected entity.
C9_WhenOutrosNotSelected ==
    pc = "group_by_topic" =>
        LET selected == SelectedEntities
        IN  "outros" \notin selected => EveryItemInSomeCluster(selected)

(***************************************************************************)
(* Specification SpecFacts: extract_key_facts applied to a bounded family  *)
(* of item lists                                                           *)
(***************************************************************************)
MaxFactItems == 2

FactEntityLists == <<<<>>, <<"Lula">>>>

FactContents ==
    <<<<>>, <<"A", "B">>, <<"B", "short", "A">>, <<"other", "lower">>, LongLulaSentences,
      <<"C", "five">>>>

\* An item with its text under "content", under "text" (a tweet), or under
\* "text" with a "caption" that the text hides.
FactItem(e, c) ==
    IF c = 4
    THEN [source |-> "Twitter", entities |-> FactEntityLists[e], text |-> FactContents[c]]
    ELSE IF c = 6
    THEN [source |-> "Instagram", entities |-> FactEntityLists[e],
          text |-> FactContents[c], caption |-> <<"D">>]
    ELSE [source |-> "G1", entities |-> FactEntityLists[e], content |-> FactContents[c]]

FactItemLists ==
    UNION {[1..n -> (1..Len(FactEntityLists)) \X (1..Len(FactContents))] :
              n \in 0..MaxFactItems}

FactTopics == {"Lula", "LULA"}

Rotate(s, k) == [i \in 1..Len(s) |-> s[((i + k - 1) % Len(s)) + 1]]

Reverse(s) == [i \in 1..Len(s) |-> s[Len(s) + 1 - i]]

\* Iteration orders of the sets of sentences.  Any order can come out of a
\* build; the model takes the rotations of one listing and their reverses,
\* which give every order of a set of up to three sentences.
SentenceOrders ==
    {Rotate(SentenceTexts, k) : k \in 0..(Len(SentenceTexts) - 1)}
    \cup {Reverse(Rotate(SentenceTexts, k)) : k \in 0..(Len(SentenceTexts) - 1)}

InitFacts ==
    /\ pc = "ready"
    /\ \E l \in FactItemLists : data = [i \in 1..Len(l) |-> FactItem(l[i][1], l[i][2])]
    /\ topic \in FactTopics
    /\ top_n = 0
    /\ trending_topics = <<>>
    /\ topics = <<>>
    /\ key_facts = <<>>
    /\ topic_insights = <<>>
    /\ recommendations = <<>>
    /\ min_relevance_score = Zero
    /\ min_percentile = Zero
    /\ engagement_values = <<>>
    /\ filtered_data = <<>>
    /\ source_distribution = <<>>
    /\ engagement_metrics = <<>>
    /\ runs = 0
    /\ previous_run = <<>>
    /\ threshold = <<>>
    /\ data_files = <<>>
    /\ args = <<>>
    /\ env = <<>>
    /\ reports = <<>>
    /\ returned = ""

extract_key_facts ==
    /\ pc = "ready"
    /\ \E h \in SentenceOrders : key_facts' = ExtractKeyFacts(data, topic, h)
    /\ pc' = "extract_key_facts"
    /\ UNCHANGED <<data, topic, top_n, trending_topics, topics,
                   topic_insights, recommendations, min_relevance_score,
                   min_percentile, engagement_values, filtered_data,
                   source_distribution, engagement_metrics, runs,
                   previous_run, threshold, data_files, args, env, reports,
                   returned>>

NextFacts == extract_key_facts

SpecFacts == InitFacts /\ [][NextFacts]_vars

(***************************************************************************)
(* Claims about extract_key_facts (checked under SpecFacts)                *)
(***************************************************************************)
\* The free text of item i, whichever key holds it.
TextOf(i) ==
    IF "content" \in DOMAIN data[i] THEN data[i].content
    ELSE IF "text" \in DOMAIN data[i] THEN data[i].text
    ELSE IF "caption" \in DOMAIN data[i] THEN data[i].caption
    ELSE <<>>

\* Every sentence of every item, in item order then sentence order.
RECURSIVE SourceOrder(_)
SourceOrder(i) == IF i > Len(data) THEN <<>> ELSE TextOf(i) \o SourceOrder(i + 1)

\* A sentence qualifies when it names the topic (in any case) and has more
\* than 5 words.
Qualifies(sentence) ==
    /\ sentence \in Range(LongLulaSentences) \cup {"lower"}
    /\ topic \in {"Lula", "LULA"}

QualifyingInOrder == SelectSeq(SourceOrder(1), Qualifies)

\* s without the later occurrences of its elements.
RECURSIVE FirstOccurrences(_)
FirstOccurrences(s) ==
    IF s = <<>> THEN <<>>
    ELSE LET front == FirstOccurrences(SubSeq(s, 1, Len(s) - 1))
         IN  IF s[Len(s)] \in Range(front) THEN front ELSE Append(front, s[Len(s)])

\* C10: extract_key_facts returns the qualifying sentences in their order of
\* occurrence (item order, then sentence order), the first occurrence of each
\* duplicate kept; of 12 distinct qualifying sentences it returns the first
\* 10 in that order.
C10_KeyFactsInSourceOrder ==
    pc = "extract_key_facts" =>
        LET expected == FirstOccurrences(QualifyingInOrder)
        IN  key_facts = SubSeq(expected, 1, Min(10, Len(expected)))

\* The part of C10 that does not depend on the order: the returned sentences
\* are distinct qualifying sentences, as many as there are, up to 10.
C10_UpToOrder ==
    pc = "extract_key_facts" =>
        /\ Range(key_facts) \subseteq Range(QualifyingInOrder)
        /\ Len(key_facts) = Cardinality(Range(key_facts))
        /\ Len(key_facts) = Min(10, Cardinality(Range(QualifyingInOrder)))

\* The sentence names the topic, whatever the case of the letters.
NamesTopic(sentence) == sentence # "other" /\ topic \in {"Lula", "LULA"}

HasMoreThanFiveWords(sentence) == sentence \notin {"short", "five"}

\* C11: the list extract_key_facts returns has at most 10 sentences, holds no
\* sentence twice, and each of its sentences is a sentence of the free text
\* (content, else text, else caption) of some input item, names the topic in
\* any case and has more than 5 words.
C11_KeyFactsBoundedDistinctQualifying ==
    pc = "extract_key_facts" =>
        /\ Len(key_facts) <= 10
        /\ \A j, k \in 1..Len(key_facts) : key_facts[j] = key_facts[k] => j = k
        /\ \A k \in 1..Len(key_facts) :
              /\ \E i \in 1..Len(data) : key_facts[k] \in Range(TextOf(i))
              /\ NamesTopic(key_facts[k])
              /\ HasMoreThanFiveWords(key_facts[k])

\* Twelve qualifying sentences are cut to 10, and the five-word sentence and
\* the hidden caption of the other item are left out.
C11_Witness ==
    /\ pc = "extract_key_facts"
    /\ Len(data) = 2
    /\ data[1].source = "Instagram"
    /\ TextOf(2) = LongLulaSentences
    /\ Len(key_facts) = 10
    /\ "D" \notin Range(key_facts)

(***************************************************************************)
(* Specification SpecRelevance: filter_by_relevance applied to a bounded   *)
(* family of item lists                                                    *)
(***************************************************************************)
MaxRelevanceItems == 3

\* relevance_score: calculate_relevance_score gives a value in [0, 1].  The
\* first option stands for an item without the key.
RelevanceScores == <<Zero, Zero, R(1, 2), R(3, 5), R(1, 1)>>

RelevanceItem(r) ==
    IF r = 1 THEN [source |-> "G1"]
    ELSE [source |-> "G1", relevance_score |-> RelevanceScores[r]]

RelevanceItemLists ==
    UNION {[1..n -> 1..Len(RelevanceScores)] : n \in 0..MaxRelevanceItems}

\* PROCESSING_CONFIG["min_relevance_score"]: 0.6 as shipped, 0 to keep all.
MinRelevanceScores == {Zero, R(3, 5)}

InitRelevance ==
    /\ pc = "ready"
    /\ \E l \in RelevanceItemLists : data = [i \in 1..Len(l) |-> RelevanceItem(l[i])]
    /\ topic = ""
    /\ top_n = 0
    /\ trending_topics = <<>>
    /\ topics = <<>>
    /\ key_facts = <<>>
    /\ topic_insights = <<>>
    /\ recommendations = <<>>
    /\ min_relevance_score \in MinRelevanceScores
    /\ min_percentile = Zero
    /\ engagement_values = <<>>
    /\ filtered_data = <<>>
    /\ source_distribution = <<>>
    /\ engagement_metrics = <<>>
    /\ runs = 0
    /\ previous_run = <<>>
    /\ threshold = <<>>
    /\ data_files = <<>>
    /\ args = <<>>
    /\ env = <<>>
    /\ reports = <<>>
    /\ returned = ""

\* Mutant of filter_by_relevance: the list handed in filtered in place.
filter_by_relevance_InPlace ==
    /\ pc = "ready"
    /\ filtered_data' = FilterByRelevance(data, min_relevance_score)
    /\ data' = ItemsAt(data, FilterByRelevance(data, min_relevance_score))
    /\ pc' = "filter_by_relevance"
    /\ UNCHANGED <<topic, top_n, trending_topics, topics, key_facts,
                   topic_insights, recommendations, min_relevance_score,
                   min_percentile, engagement_values, source_distribution,
                   engagement_metrics, runs, previous_run, threshold,
                   data_files, args, env, reports, returned>>

filter_by_relevance ==
    /\ pc = "ready"
    /\ filtered_data' = FilterByRelevance(data, min_relevance_score)
    /\ pc' = "filter_by_relevance"
    /\ UNCHANGED <<data, topic, top_n, trending_topics, topics, key_facts,
                   topic_insights, recommendations, min_relevance_score,
                   min_percentile, engagement_values, source_distribution,
                   engagement_metrics, runs, previous_run, threshold,
                   data_files, args, env, reports, returned>>

NextRelevance == filter_by_relevance

SpecRelevance == InitRelevance /\ [][NextRelevance]_vars

(***************************************************************************)
(* Claims about filter_by_relevance (checked under SpecRelevance)          *)
(***************************************************************************)
\* The relevance score of item i, 0 for an item without the key.
RelevanceOf(i) ==
    IF "relevance_score" \in DOMAIN data[i] THEN data[i].relevance_score ELSE <<0, 1>>

AllIndices == [i \in 1..Len(data) |-> i]

\* C15: filter_by_relevance returns, in input order, exactly the items whose
\* relevance_score is >= min_relevance_score, an item without the key counting
\* as 0; with min_relevance_score = 0 the output is the input.
C15_RelevanceFilterKeepsScoresAtOrAboveMinimum ==
    pc = "filter_by_relevance" =>
        /\ filtered_data =
              Ascending({i \in 1..Len(data) : RGe(RelevanceOf(i), min_relevance_score)})
        /\ min_relevance_score = <<0, 1>> => filtered_data = AllIndices

\* At the minimum 0.6, of an item without score, one at 0.6 and one at 0.5
\* only the second is kept.
C15_Witness ==
    /\ pc = "filter_by_relevance"
    /\ min_relevance_score = <<3, 5>>
    /\ Len(data) = 3
    /\ "relevance_score" \notin DOMAIN data[1]
    /\ RelevanceOf(2) = <<3, 5>>
    /\ RelevanceOf(3) = <<1, 2>>
    /\ filtered_data = <<2>>

(***************************************************************************)
(* Specification SpecFilter: filter_by_engagement applied to a bounded     *)
(* family of item lists and percentiles                                    *)
(***************************************************************************)
MaxFilterItems == 3

\* The engagement field of an item: a dict with both keys, with
\* total_engagement only, with normalized_engagement only, an empty dict, a
\* number in place of the dict.  Option 1 stands for an item without the
\* field.
FilterEngagements ==
    <<<<>>,
      <<>>,
      [normalized_engagement |-> R(1, 5), total_engagement |-> R(30, 1)],
      [total_engagement |-> R(3, 1)],
      [normalized_engagement |-> R(1, 2)],
      [not_a_dict |-> R(7, 1)]>>

FilterItem(g) ==
    IF g = 1 THEN [source |-> "G1"]
    ELSE [source |-> "G1", engagement |-> FilterEngagements[g]]

FilterItemLists ==
    UNION {[1..n -> 1..Len(FilterEngagements)] : n \in 0..MaxFilterItems}

\* min_percentile: 0.3 is the default of the signature.
Percentiles == {Zero, R(3, 10), R(1, 2), R(3, 4), R(1, 1)}

InitFilter ==
    /\ pc = "ready"
    /\ \E l \in FilterItemLists : data = [i \in 1..Len(l) |-> FilterItem(l[i])]
    /\ topic = ""
    /\ top_n = 0
    /\ trending_topics = <<>>
    /\ topics = <<>>
    /\ key_facts = <<>>
    /\ topic_insights = <<>>
    /\ recommendations = <<>>
    /\ min_relevance_score = Zero
    /\ min_percentile \in Percentiles
    /\ engagement_values = <<>>
    /\ filtered_data = <<>>
    /\ source_distribution = <<>>
    /\ engagement_metrics = <<>>
    /\ runs = 0
    /\ previous_run = <<>>
    /\ threshold = <<>>
    /\ data_files = <<>>
    /\ args = <<>>
    /\ env = <<>>
    /\ reports = <<>>
    /\ returned = ""

filter_by_engagement ==
    /\ pc = "ready"
    /\ engagement_values' = IF data = <<>> THEN <<>> ELSE EngagementValues(data)
    /\ threshold' = IF data = <<>> THEN threshold
                    ELSE Threshold(EngagementValues(data), min_percentile)
    /\ filtered_data' = FilterByEngagement(data, min_percentile)
    /\ pc' = "filter_by_engagement"
    /\ UNCHANGED <<data, topic, top_n, trending_topics, topics, key_facts,
                   topic_insights, recommendations, min_relevance_score,
                   min_percentile, source_distribution, engagement_metrics,
                   runs, previous_run, data_files, args, env, reports,
                   returned>>

NextFilter == filter_by_engagement

SpecFilter == InitFilter /\ [][NextFilter]_vars

(***************************************************************************)
(* Claims about filter_by_engagement (checked under SpecFilter)            *)
(***************************************************************************)
\* The engagement value of item i: normalized_engagement if present, else
\* total_engagement if present, else 0; 0 too when the engagement field is
\* absent or is not a mapping.
EngagementOf(i) ==
    IF "engagement" \notin DOMAIN data[i] THEN <<0, 1>>
    ELSE LET e == data[i].engagement IN
         IF "not_a_dict" \in DOMAIN e THEN <<0, 1>>
         ELSE IF "normalized_engagement" \in DOMAIN e THEN e.normalized_engagement
         ELSE IF "total_engagement" \in DOMAIN e THEN e.total_engagement
         ELSE <<0, 1>>

\* The value at position k (from 0) of the sorted engagement values: the
\* value with at most k values below it and more than k values at or below.
ValueAtRank(k) ==
    CHOOSE v \in {EngagementOf(i) : i \in 1..Len(data)} :
        /\ Cardinality({i \in 1..Len(data) : ~RGe(EngagementOf(i), v)}) <= k
        /\ Cardinality({i \in 1..Len(data) : RGe(v, EngagementOf(i))}) > k

\* The p-th percentile of the engagement values by linear interpolation: at
\* the fractional position p * (n - 1) = whole + part / p[2], the weighted
\* mean of the values at positions whole and whole + 1.
PercentileOf(p) ==
    LET n == Len(data)
        whole == (p[1] * (n - 1)) \div p[2]
        part == (p[1] * (n - 1)) % p[2]
    IN  IF part = 0 THEN ValueAtRank(whole)
        ELSE RAdd(RMul(ValueAtRank(whole), R(p[2] - part, p[2])),
                  RMul(ValueAtRank(whole + 1), R(part, p[2])))

\* C12: filter_by_engagement(items, p) returns, in input order, exactly the
\* items whose engagement value is >= the p-th percentile (linear
\* interpolation at position p * (n - 1)) of all items' engagement values;
\* an empty input gives an empty output.
C12_KeepsItemsAtOrAbovePercentile ==
    pc = "filter_by_engagement" =>
        IF data = <<>> THEN filtered_data = <<>>
        ELSE LET cut == PercentileOf(min_percentile)
             IN  filtered_data =
                     Ascending({i \in 1..Len(data) : RGe(EngagementOf(i), cut)})

\* Values 0, 3, 0.5 at p = 0.3: the threshold 0.3 lies between the two
\* smallest values, and the first item is dropped.
C12_Witness ==
    /\ pc = "filter_by_engagement"
    /\ min_percentile = <<3, 10>>
    /\ engagement_values = <<<<0, 1>>, <<3, 1>>, <<1, 2>>>>
    /\ filtered_data = <<2, 3>>

\* C13: for percentiles p1 <= p2, filter_by_engagement at p2 keeps no more
\* items than at p1, and every item it keeps at p2 it keeps at p1.
C13_HigherPercentileKeepsSubset ==
    pc = "filter_by_engagement" =>
        \A p1 \in Percentiles :
            RLe(p1, min_percentile) =>
                LET at_p1 == FilterByEngagement(data, p1)
                IN  /\ Len(filtered_data) <= Len(at_p1)
                    /\ Range(filtered_data) \subseteq Range(at_p1)

\* At p2 = 0.75 fewer items are kept than at p1 = 0.3.
C13_Witness ==
    /\ pc = "filter_by_engagement"
    /\ min_percentile = <<3, 4>>
    /\ Len(data) = 3
    /\ Len(filtered_data) = 1
    /\ Len(FilterByEngagement(data, <<3, 10>>)) = 2

\* C14: when all items have the same engagement value (all zero and all
\* missing included) filter_by_engagement returns every item, at every
\* min_percentile.
C14_EqualValuesKeepEveryItem ==
    /\ pc = "filter_by_engagement"
    /\ \A i, j \in 1..Len(data) : EngagementOf(i) = EngagementOf(j)
    => filtered_data = [i \in 1..Len(data) |-> i]

\* Three items without a usable engagement value, at the percentile 1.
C14_Witness ==
    /\ pc = "filter_by_engagement"
    /\ min_percentile = <<1, 1>>
    /\ Len(data) = 3
    /\ "engagement" \notin DOMAIN data[1]
    /\ "engagement" \in DOMAIN data[2] /\ DOMAIN data[2].engagement = {}
    /\ "engagement" \in DOMAIN data[3] /\ "not_a_dict" \in DOMAIN data[3].engagement
    /\ filtered_data = <<1, 2, 3>>

(***************************************************************************)
(* The two metric operations of InsightGenerator.  They read the clusters  *)
(* of data["topics"]; a member of a cluster is the item data[i].           *)
(***************************************************************************)
generate_source_distribution ==
    /\ pc = "ready"
    /\ source_distribution' = SourceDistribution(data, topics)
    /\ pc' = "generate_source_distribution"
    /\ UNCHANGED <<data, topic, top_n, trending_topics, topics, key_facts,
                   topic_insights, recommendations, min_relevance_score,
                   min_percentile, engagement_values, filtered_data,
                   engagement_metrics, runs, previous_run, threshold,
                   data_files, args, env, reports, returned>>

generate_engagement_metrics ==
    /\ pc = "ready"
    /\ engagement_metrics' = EngagementMetrics(data, topics)
    /\ pc' = "generate_engagement_metrics"
    /\ UNCHANGED <<data, topic, top_n, trending_topics, topics, key_facts,
                   topic_insights, recommendations, min_relevance_score,
                   min_percentile, engagement_values, filtered_data,
                   source_distribution, runs, previous_run, threshold,
                   data_files, args, env, reports, returned>>

(***************************************************************************)
(* Specification SpecEngagement: the three operations that read an item's  *)
(* engagement, applied to the same bounded family of item lists            *)
(***************************************************************************)
MaxEngagementItems == 2

\* An item that names Lula, with one of the engagement fields of
\* FilterEngagements (option 1: no field).
EngagementItem(src, g) ==
    IF g = 1
    THEN [source |-> src, entities |-> <<"Lula">>, hashtags |-> <<>>]
    ELSE [source |-> src, entities |-> <<"Lula">>, hashtags |-> <<>>,
          engagement |-> FilterEngagements[g]]

EngagementItemLists ==
    UNION {[1..n -> SourceNames \X (1..Len(FilterEngagements))] :
              n \in 0..MaxEngagementItems}

InitEngagement ==
    /\ pc = "ready"
    /\ \E l \in EngagementItemLists :
          /\ data = [i \in 1..Len(l) |-> EngagementItem(l[i][1], l[i][2])]
          /\ topics = GroupByTopic([i \in 1..Len(l) |-> EngagementItem(l[i][1], l[i][2])])
    /\ topic = ""
    /\ top_n = 5
    /\ trending_topics = <<>>
    /\ key_facts = <<>>
    /\ topic_insights = <<>>
    /\ recommendations = <<>>
    /\ min_relevance_score = Zero
    /\ min_percentile = R(3, 10)
    /\ engagement_values = <<>>
    /\ filtered_data = <<>>
    /\ source_distribution = <<>>
    /\ engagement_metrics = <<>>
    /\ runs = 0
    /\ previous_run = <<>>
    /\ threshold = <<>>
    /\ data_files = <<>>
    /\ args = <<>>
    /\ env = <<>>
    /\ reports = <<>>
    /\ returned = ""

NextEngagement ==
    \/ filter_by_engagement
    \/ extract_trending_topics
    \/ generate_engagement_metrics

SpecEngagement == InitEngagement /\ [][NextEngagement]_vars

(***************************************************************************)
(* Claims about the engagement value (checked under SpecEngagement)        *)
(***************************************************************************)
\* Equality of two fractions that need not be in lowest terms.
SameValue(a, b) == a[1] * b[2] = b[1] * a[2]

\* The sum of EngagementOf over the item indices listed in s.
RECURSIVE SumEngagementOf(_)
SumEngagementOf(s) ==
    IF s = <<>> THEN <<0, 1>>
    ELSE LET rest == SumEngagementOf(Tail(s))
             v == EngagementOf(Head(s))
         IN  <<rest[1] * v[2] + v[1] * rest[2], rest[2] * v[2]>>

\* Every member of every cluster, cluster after cluster.
RECURSIVE Members(_)
Members(k) == IF k > Len(topics) THEN <<>> ELSE topics[k][2] \o Members(k + 1)

SourceAt(i) == IF "source" \in DOMAIN data[i] THEN data[i].source ELSE "Desconhecido"

MembersOfSource(src) == SelectSeq(Members(1), LAMBDA i : SourceAt(i) = src)

\* C16: filter_by_engagement, extract_trending_topics and
\* generate_engagement_metrics read the same engagement value for every item:
\* normalized_engagement if present, else total_engagement if present, else 0
\* (0 also when the field is absent or is not a mapping).
C16_OneEngagementValueEverywhere ==
    /\ (pc = "filter_by_engagement" /\ data # <<>>) =>
           engagement_values = [i \in 1..Len(data) |-> EngagementOf(i)]
    /\ pc = "extract_trending_topics" =>
           \A k \in 1..Len(trending_topics) :
               LET related == Ascending(RelatedIdx(trending_topics[k].topic))
               IN  IsQuotient(trending_topics[k].avg_engagement,
                              SumEngagementOf(related), Len(related))
    /\ pc = "generate_engagement_metrics" =>
           \A k \in 1..Len(engagement_metrics) :
               SameValue(engagement_metrics[k][2].total_engagement,
                         SumEngagementOf(MembersOfSource(engagement_metrics[k][1])))

\* An item with both keys (0.2 and 30) and one whose engagement is a number:
\* the metrics of their source add 0.2 and 0.
C16_Witness ==
    /\ pc = "generate_engagement_metrics"
    /\ Len(data) = 2
    /\ "engagement" \in DOMAIN data[1]
    /\ {"normalized_engagement", "total_engagement"} \subseteq DOMAIN data[1].engagement
    /\ "engagement" \in DOMAIN data[2]
    /\ "not_a_dict" \in DOMAIN data[2].engagement
    /\ Len(engagement_metrics) = 1
    /\ engagement_metrics[1][2].total_items = 2
    /\ engagement_metrics[1][2].total_engagement = <<1, 5>>

(***************************************************************************)
(* Specification SpecMetrics: generate_source_distribution and             *)
(* generate_engagement_metrics applied to the clusters group_by_topic      *)
(* makes of a bounded family of item lists                                 *)
(***************************************************************************)
MaxMetricItems == 2

\* The source of an item; "" stands for an item without the key.
MetricSources == {"G1", "Twitter", ""}

MetricEntityLists == <<<<>>, <<"Lula">>, <<"Lula", "Dilma">>>>

\* Engagement fields with the values 0 (option 1: no field), 0.5 (the
\* threshold), 0.2 and 3.
MetricEngagements ==
    <<<<>>,
      [normalized_engagement |-> R(1, 2)],
      [normalized_engagement |-> R(1, 5), total_engagement |-> R(30, 1)],
      [total_engagement |-> R(3, 1)]>>

MetricItem(src, e, g) ==
    IF src = "" /\ g = 1 THEN [entities |-> MetricEntityLists[e]]
    ELSE IF src = "" THEN [entities |-> MetricEntityLists[e],
                           engagement |-> MetricEngagements[g]]
    ELSE IF g = 1 THEN [source |-> src, entities |-> MetricEntityLists[e]]
    ELSE [source |-> src, entities |-> MetricEntityLists[e],
          engagement |-> MetricEngagements[g]]

MetricItemLists ==
    UNION {[1..n -> MetricSources \X (1..Len(MetricEntityLists))
                        \X (1..Len(MetricEngagements))] : n \in 0..MaxMetricItems}

InitMetrics ==
    /\ pc = "ready"
    /\ \E l \in MetricItemLists :
          LET items == [i \in 1..Len(l) |-> MetricItem(l[i][1], l[i][2], l[i][3])]
          IN  data = items /\ topics = GroupByTopic(items)
    /\ topic = ""
    /\ top_n = 0
    /\ trending_topics = <<>>
    /\ key_facts = <<>>
    /\ topic_insights = <<>>
    /\ recommendations = <<>>
    /\ min_relevance_score = Zero
    /\ min_percentile = Zero
    /\ engagement_values = <<>>
    /\ filtered_data = <<>>
    /\ source_distribution = <<>>
    /\ engagement_metrics = <<>>
    /\ runs = 0
    /\ previous_run = <<>>
    /\ threshold = <<>>
    /\ data_files = <<>>
    /\ args = <<>>
    /\ env = <<>>
    /\ reports = <<>>
    /\ returned = ""

NextMetrics == generate_source_distribution \/ generate_engagement_metrics

SpecMetrics == InitMetrics /\ [][NextMetrics]_vars

(***************************************************************************)
(* Claims about the metric operations (checked under SpecMetrics)          *)
(***************************************************************************)
\* The total of all cluster sizes.
RECURSIVE ClusterSizes(_)
ClusterSizes(k) ==
    IF k > Len(topics) THEN 0 ELSE Len(topics[k][2]) + ClusterSizes(k + 1)

\* The number of (cluster, member) pairs whose item has the source src.
PairsOfSource(src) ==
    Cardinality({p \in (1..Len(topics)) \X (1..Len(data)) :
                    /\ p[2] <= Len(topics[p[1]][2])
                    /\ SourceAt(topics[p[1]][2][p[2]]) = src})

SourcesPresent == {SourceAt(i) : i \in ClassifiedItems(topics)}

RECURSIVE SumOfCounts(_)
SumOfCounts(k) ==
    IF k > Len(source_distribution) THEN 0
    ELSE source_distribution[k][2].count + SumOfCounts(k + 1)

\* C17: generate_source_distribution counts an item once per cluster it is
\* in: a source's count is the number of (cluster, member) pairs whose item
\* has that source, the counts sum to the total of the cluster sizes,
\* percentage = count / total * 100, and without items the result is empty.
C17_SourceCountsAreClusterWeighted ==
    pc = "generate_source_distribution" =>
        LET total == ClusterSizes(1) IN
        /\ {source_distribution[k][1] : k \in 1..Len(source_distribution)} = SourcesPresent
        /\ Len(source_distribution) = Cardinality(SourcesPresent)
        /\ \A k \in 1..Len(source_distribution) :
              LET row == source_distribution[k][2] IN
              /\ row.count = PairsOfSource(source_distribution[k][1])
              /\ SameValue(row.percentage, <<row.count * 100, total>>)
        /\ SumOfCounts(1) = total
        /\ total = 0 => source_distribution = <<>>

\* Two items of different sources that are both in the clusters Lula and
\* Dilma: each source counts 2 of 4.
C17_Witness ==
    /\ pc = "generate_source_distribution"
    /\ Len(data) = 2
    /\ Len(topics) = 3
    /\ topics[1][2] = <<1, 2>> /\ topics[2][2] = <<1, 2>>
    /\ source_distribution =
          <<<<"G1", [count |-> 2, percentage |-> <<50, 1>>]>>,
            <<"Twitter", [count |-> 2, percentage |-> <<50, 1>>]>>>>

\* C18: generate_engagement_metrics returns one row per source that has an
\* item in the cluster-weighted population and no other row; in each row
\* total_items >= 1, total_engagement is the sum of the items' engagement
\* values, avg_engagement = total_engagement / total_items,
\* high_engagement_items counts the items whose value is strictly greater
\* than engagement_threshold, and high_engagement_items <= total_items.
C18_OneMetricsRowPerSourcePresent ==
    pc = "generate_engagement_metrics" =>
        /\ {engagement_metrics[k][1] : k \in 1..Len(engagement_metrics)} = SourcesPresent
        /\ Len(engagement_metrics) = Cardinality(SourcesPresent)
        /\ \A k \in 1..Len(engagement_metrics) :
              LET row == engagement_metrics[k][2]
                  members == MembersOfSource(engagement_metrics[k][1])
              IN  /\ row.total_items >= 1
                  /\ row.total_items = Len(members)
                  /\ SameValue(row.total_engagement, SumEngagementOf(members))
                  /\ IsQuotient(row.avg_engagement, row.total_engagement, row.total_items)
                  /\ row.high_engagement_items =
                        Len(SelectSeq(members, LAMBDA i : 2 * EngagementOf(i)[1] > EngagementOf(i)[2]))
                  /\ row.high_engagement_items <= row.total_items

\* A source with an item at the threshold 0.5 and an item at 3: one item of
\* two is a high-engagement item.
C18_Witness ==
    /\ pc = "generate_engagement_metrics"
    /\ Len(data) = 2
    /\ EngagementOf(1) = <<1, 2>>
    /\ EngagementOf(2) = <<3, 1>>
    /\ Len(engagement_metrics) = 1
    /\ engagement_metrics[1][2].total_items = 2
    /\ engagement_metrics[1][2].high_engagement_items = 1
    /\ engagement_metrics[1][2].avg_engagement = <<7, 4>>

(***************************************************************************)
(* Specification SpecPipeline: consolidate_data followed by                *)
(* generate_all_insights, run more than once on the same input snapshot.   *)
(* Every run is a process of its own, with its own string-hash seed.  The  *)
(* timestamps processed_at and generated_at are left out.                  *)
(***************************************************************************)
MaxPipelineItems == 3

MaxRuns == 2

MaxFiles == 2

\* The collected items: a G1 article, a tweet, an Instagram post of low
\* relevance, a G1 article without engagement.
PipelineItems ==
    <<[source |-> "G1", relevance_score |-> R(1, 1),
       engagement |-> [normalized_engagement |-> R(1, 2)],
       entities |-> <<"Lula">>, hashtags |-> <<>>, content |-> <<"A", "B">>],
      [source |-> "Twitter", relevance_score |-> R(3, 5),
       engagement |-> [normalized_engagement |-> R(1, 5), total_engagement |-> R(30, 1)],
       entities |-> <<"Lula", "Dilma">>, hashtags |-> <<"Lula">>, text |-> <<"C">>],
      [source |-> "Instagram", relevance_score |-> R(1, 2),
       engagement |-> [total_engagement |-> R(3, 1)],
       entities |-> <<"Dilma">>, hashtags |-> <<"Dilma">>, caption |-> <<"lower">>],
      [source |-> "G1", relevance_score |-> R(1, 1),
       entities |-> <<"Dilma">>, hashtags |-> <<>>, content |-> <<"other", "short">>]>>

PipelineItemLists ==
    UNION {[1..n -> 1..Len(PipelineItems)] : n \in 0..MaxPipelineItems}

\* The four items of the worked example of the engagement filter: sources
\* G1, G1, Twitter, Instagram, engagement values 0.2, 0.8, 0.5, 0.1, every
\* item relevant enough to pass filter_by_relevance.
ScenarioItems ==
    <<[source |-> "G1", relevance_score |-> R(1, 1),
       engagement |-> [normalized_engagement |-> R(1, 5)],
       entities |-> <<"Lula">>, hashtags |-> <<>>],
      [source |-> "G1", relevance_score |-> R(1, 1),
       engagement |-> [normalized_engagement |-> R(4, 5)],
       entities |-> <<"Lula", "Dilma">>, hashtags |-> <<>>],
      [source |-> "Twitter", relevance_score |-> R(1, 1),
       engagement |-> [normalized_engagement |-> R(1, 2)],
       entities |-> <<"Dilma">>, hashtags |-> <<>>],
      [source |-> "Instagram", relevance_score |-> R(1, 1),
       engagement |-> [normalized_engagement |-> R(1, 10)],
       entities |-> <<>>, hashtags |-> <<>>]>>

\* An input file is missing, unparsable, or holds a JSON value.  A JSON value
\* is held by its type and by the elements that iterating it yields: the
\* elements of a list, the keys of an object, nothing for a number.
JsonFile(type, elements) == [kind |-> "json", value |-> [type |-> type, elements |-> elements]]

FileChoices ==
    <<[kind |-> "missing"],
      [kind |-> "unparsable"],
      JsonFile("number", <<>>),
      JsonFile("object", <<[not_a_dict |-> "items"]>>),
      JsonFile("list", <<[not_a_dict |-> "G1"]>>),
      JsonFile("list", <<PipelineItems[1]>>),
      JsonFile("list", <<PipelineItems[2]>>)>>

\* One file holding a list of collected items, or up to MaxFiles files of
\* any kind.
PipelineFileLists ==
    {<<JsonFile("list", [i \in 1..Len(l) |-> PipelineItems[l[i]]])>> : l \in PipelineItemLists}
    \cup UNION {[1..n -> Range(FileChoices)] : n \in 0..MaxFiles}

\* What a run hands downstream.
Outputs ==
    [filtered_data       |-> filtered_data,
     topics              |-> topics,
     trending_topics     |-> trending_topics,
     source_distribution |-> source_distribution,
     topic_insights      |-> topic_insights,
     engagement_metrics  |-> engagement_metrics,
     recommendations     |-> recommendations]

InitPipeline ==
    /\ pc = "ready"
    /\ data = <<>>
    /\ topic = ""
    /\ top_n = 5
    /\ trending_topics = <<>>
    /\ topics = <<>>
    /\ key_facts = <<>>
    /\ topic_insights = <<>>
    /\ recommendations = <<>>
    /\ min_relevance_score = R(3, 5)
    /\ min_percentile = R(3, 10)
    /\ engagement_values = <<>>
    /\ filtered_data = <<>>
    /\ source_distribution = <<>>
    /\ engagement_metrics = <<>>
    /\ runs = 0
    /\ previous_run = <<>>
    /\ threshold = <<>>
    /\ data_files \in PipelineFileLists
    /\ args = <<>>
    /\ env = <<>>
    /\ reports = <<>>
    /\ returned = ""

\* A run loads the input files and processes what they hold; the outputs of
\* the run before it, if any, are set aside for comparison.  An exception
\* that leaves consolidate_data ends the run at its name.
consolidate_data ==
    /\ pc \in {"ready", "generate_all_insights"}
    /\ runs < MaxRuns
    /\ runs' = runs + 1
    /\ previous_run' = IF pc = "ready" THEN previous_run ELSE Outputs
    /\ LET all_data == AllData(data_files) IN
       /\ data' = all_data
       /\ IF \E i \in 1..Len(all_data) : ~IsDict(all_data[i])
          THEN \* item.get of filter_by_relevance on a value that is no dict
               /\ pc' = "AttributeError"
               /\ UNCHANGED <<engagement_values, threshold, filtered_data,
                              topics, trending_topics, args, env, reports,
                              returned>>
          ELSE /\ LET by_relevance ==
                          ItemsAt(all_data, FilterByRelevance(all_data, min_relevance_score))
                  IN  /\ engagement_values' =
                             IF by_relevance = <<>> THEN engagement_values
                             ELSE EngagementValues(by_relevance)
                      /\ threshold' =
                             IF by_relevance = <<>> THEN threshold
                             ELSE Threshold(EngagementValues(by_relevance), R(3, 10))
               /\ LET kept == ConsolidateFilter(all_data, min_relevance_score)
                      filtered_items == ItemsAt(all_data, kept)
                      sources == {Get(filtered_items[i], "source", "") :
                                     i \in 1..Len(filtered_items)}
                      sentences == UNION {Range(FreeText(filtered_items[i])) :
                                             i \in 1..Len(filtered_items)}
                      listings == {ListOfSet(sentences, hs) : hs \in SentenceOrders}
                  IN  /\ filtered_data' = kept
                      /\ topics' = ConsolidateGroup(all_data, kept)
                      /\ \E h \in Orders(sources), hs \in listings :
                            trending_topics' = ConsolidateTrending(filtered_items, h, hs)
               /\ pc' = "consolidate_data"
    /\ UNCHANGED <<data_files, topic, top_n, key_facts, topic_insights,
                   recommendations, min_relevance_score, min_percentile,
                   source_distribution, engagement_metrics, args, env,
                   reports, returned>>

generate_all_insights ==
    /\ pc = "consolidate_data"
    /\ source_distribution' = SourceDistribution(data, topics)
    /\ topic_insights' = TopicInsights(trending_topics)
    /\ engagement_metrics' = EngagementMetrics(data, topics)
    /\ recommendations' = ContentRecommendations(trending_topics)
    /\ pc' = "generate_all_insights"
    /\ UNCHANGED <<data, topic, top_n, trending_topics, topics, key_facts,
                   min_relevance_score, min_percentile, engagement_values,
                   filtered_data, runs, previous_run, threshold, data_files,
                   args, env, reports, returned>>

NextPipeline == consolidate_data \/ generate_all_insights

SpecPipeline == InitPipeline /\ [][NextPipeline]_vars

\* The pipeline on the worked example: one file holding some of the four
\* items, each at most once, in any order.
ScenarioLists ==
    {l \in UNION {[1..n -> 1..Len(ScenarioItems)] : n \in 0..Len(ScenarioItems)} :
        \A i, j \in DOMAIN l : l[i] = l[j] => i = j}

InitScenario ==
    /\ pc = "ready"
    /\ data = <<>>
    /\ topic = ""
    /\ top_n = 5
    /\ trending_topics = <<>>
    /\ topics = <<>>
    /\ key_facts = <<>>
    /\ topic_insights = <<>>
    /\ recommendations = <<>>
    /\ min_relevance_score = R(3, 5)
    /\ min_percentile = R(3, 10)
    /\ engagement_values = <<>>
    /\ filtered_data = <<>>
    /\ source_distribution = <<>>
    /\ engagement_metrics = <<>>
    /\ runs = 0
    /\ previous_run = <<>>
    /\ threshold = <<>>
    /\ \E l \in ScenarioLists :
          data_files = <<JsonFile("list", [i \in 1..Len(l) |-> ScenarioItems[l[i]]])>>
    /\ args = <<>>
    /\ env = <<>>
    /\ reports = <<>>
    /\ returned = ""

SpecScenario == InitScenario /\ [][NextPipeline]_vars

(***************************************************************************)
(* Claims about the whole pipeline (checked under SpecPipeline)            *)
(***************************************************************************)
\* C20: the full pipeline run twice on the same unchanged snapshot gives the
\* same outputs both times: same clusters, same trending topics with the
\* same sources and key_facts sequences, same insights and recommendations.
C20_SecondRunEqualsFirst ==
    (pc = "generate_all_insights" /\ runs = 2) => Outputs = previous_run

\* A trending topic, insight or recommendation with its sources and key
\* facts taken as sets.
AsSets(t) ==
    [x \in DOMAIN t |-> IF x \in {"sources", "key_facts"} THEN Range(t[x]) ELSE t[x]]

ListAsSets(l) == [k \in 1..Len(l) |-> AsSets(l[k])]

\* The part of C20 that does not depend on the hash seed: the two runs differ
\* at most in the order of the sources and of the key facts of a topic.
C20_UpToListingOrder ==
    (pc = "generate_all_insights" /\ runs = 2) =>
        /\ filtered_data = previous_run.filtered_data
        /\ topics = previous_run.topics
        /\ source_distribution = previous_run.source_distribution
        /\ engagement_metrics = previous_run.engagement_metrics
        /\ ListAsSets(trending_topics) = ListAsSets(previous_run.trending_topics)
        /\ ListAsSets(topic_insights) = ListAsSets(previous_run.topic_insights)
        /\ ListAsSets(recommendations) = ListAsSets(previous_run.recommendations)

\* The trending-topic candidates as (topic, count) pairs, in order.
Candidates == [k \in 1..Len(trending_topics) |->
                  <<trending_topics[k].topic, trending_topics[k].count>>]

\* C21: on the four items of the worked example (sources G1, G1, Twitter,
\* Instagram; entities [Lula], [Lula, Dilma], [Dilma], []; engagement values
\* 0.2, 0.8, 0.5, 0.1) the engagement filter at percentile 0.3 drops only
\* the item of value 0.1 and keeps the other three, and the trending topics
\* of the kept items at top_n = 5 are exactly Lula with count 2, then Dilma
\* with count 2.
C21_ScenarioKeepsThreeAndRanksLulaDilma ==
    (pc # "ready" /\ data = ScenarioItems) =>
        /\ filtered_data = <<1, 2, 3>>
        /\ Candidates = << <<"Lula", 2>>, <<"Dilma", 2>> >>

C21_Witness ==
    /\ pc = "consolidate_data"
    /\ data = ScenarioItems
    /\ Len(filtered_data) = 3
    /\ Len(trending_topics) = 2

\* C22 as stated: for the engagement values 0.1, 0.2, 0.5, 0.8 and the
\* percentile 0.3 the threshold of filter_by_engagement is about 0.31 (within
\* half a hundredth of it).
C22_ThresholdAboutThirtyOneHundredths ==
    (pc # "ready" /\ SortAscending(engagement_values) = <<R(1, 10), R(1, 5), R(1, 2), R(4, 5)>>) =>
        /\ RGe(threshold, R(61, 200))
        /\ RLe(threshold, R(63, 200))

\* C22, amended: for the engagement values 0.1, 0.2, 0.5, 0.8 and the
\* percentile 0.3 the threshold of filter_by_engagement is 0.19, the value at
\* position 0.9 between 0.1 and 0.2.
C22_ThresholdIsNineteenHundredths ==
    (pc # "ready" /\ SortAscending(engagement_values) = <<R(1, 10), R(1, 5), R(1, 2), R(4, 5)>>) =>
        threshold = R(19, 100)

C22_Witness ==
    /\ pc = "consolidate_data"
    /\ engagement_values = <<R(1, 5), R(4, 5), R(1, 2), R(1, 10)>>
    /\ min_percentile = R(3, 10)
    /\ threshold = R(19, 100)

\* A file load_data gives an empty list for: missing, unparsable, or holding
\* a value without a length.
FailsToLoad(file) == LoadData(file).elements = <<>>

\* A file that parses to something other than a list of records.
HoldsNonRecords(file) ==
    /\ file.kind = "json"
    /\ \/ file.value.type # "list"
       \/ \E i \in 1..Len(file.value.elements) : ~IsDict(file.value.elements[i])

\* C23: consolidate_data over any input files (each readable, missing,
\* unparsable, or parsable but not a list of records) completes and returns
\* a result: no exception leaves it.
C23_ConsolidateNeverRaises == pc # "AttributeError"

\* The part of C23 that holds: when every file fails to load, the result
\* has total_items = 0, filtered_items = 0, no trending topics and only an
\* empty 'outros' cluster; and an exception needs a file that parses to
\* something other than a list of records.
C23_FailedLoadsGiveEmptyResult ==
    /\ (pc # "ready" /\ \A k \in 1..Len(data_files) : FailsToLoad(data_files[k])) =>
          /\ pc # "AttributeError"
          /\ Len(data) = 0
          /\ Len(filtered_data) = 0
          /\ trending_topics = <<>>
          /\ topics = << <<"outros", <<>> >> >>
    /\ pc = "AttributeError" =>
          \E k \in 1..Len(data_files) : HoldsNonRecords(data_files[k])

(***************************************************************************)
(* SpecPartial: every stage on a batch that holds one item lacking some of *)
(* its fields among up to MaxCompleteItems complete items.                 *)
(***************************************************************************)
MaxCompleteItems == 2

CompleteItems ==
    <<[source |-> "G1", relevance_score |-> R(1, 1),
       engagement |-> [normalized_engagement |-> R(1, 2)],
       entities |-> <<"Lula">>, hashtags |-> <<"Lula">>, content |-> <<"A", "B">>],
      [source |-> "Twitter", relevance_score |-> R(3, 5),
       engagement |-> [normalized_engagement |-> R(1, 5), total_engagement |-> R(30, 1)],
       entities |-> <<"Lula", "Dilma">>, hashtags |-> <<>>, content |-> <<"C">>]>>

\* The fields an item may lack; content stands for the free text.
OptionalFields ==
    {"relevance_score", "engagement", "entities", "hashtags", "source", "content"}

\* The first complete item without the fields of missing.
PartialItem(missing) ==
    [f \in DOMAIN CompleteItems[1] \ missing |-> CompleteItems[1][f]]

\* l with the item x put at position p.
InsertAt(l, p, x) == SubSeq(l, 1, p - 1) \o <<x>> \o SubSeq(l, p, Len(l))

PartialBatches ==
    {InsertAt([i \in 1..Len(l) |-> CompleteItems[l[i]]], p, PartialItem(missing)) :
        <<l, p, missing>> \in
            {<<l, p, missing>> \in
                 (UNION {[1..n -> 1..Len(CompleteItems)] : n \in 0..MaxCompleteItems})
                 \X (1..(MaxCompleteItems + 1)) \X (SUBSET OptionalFields) :
                 p <= Len(l) + 1}}

InitPartial ==
    /\ pc = "ready"
    /\ \E items \in PartialBatches :
          /\ data = items
          /\ topics = GroupByTopic(items)
          /\ \E h \in Orders({Get(items[i], "source", "") : i \in 1..Len(items)}) :
                trending_topics = ConsolidateTrending(items, h, SentenceTexts)
    /\ topic = "Lula"
    /\ top_n = 5
    /\ key_facts = <<>>
    /\ topic_insights = <<>>
    /\ recommendations = <<>>
    /\ min_relevance_score \in MinRelevanceScores
    /\ min_percentile = R(3, 10)
    /\ engagement_values = <<>>
    /\ filtered_data = <<>>
    /\ source_distribution = <<>>
    /\ engagement_metrics = <<>>
    /\ runs = 0
    /\ previous_run = <<>>
    /\ threshold = <<>>
    /\ data_files = <<>>
    /\ args = <<>>
    /\ env = <<>>
    /\ reports = <<>>
    /\ returned = ""

NextPartial ==
    \/ filter_by_relevance
    \/ filter_by_engagement
    \/ group_by_topic
    \/ extract_trending_topics
    \/ extract_key_facts
    \/ generate_source_distribution
    \/ generate_topic_insights
    \/ generate_engagement_metrics
    \/ generate_content_recommendations

SpecPartial == InitPartial /\ [][NextPartial]_vars

(***************************************************************************)
(* Claims about items that lack fields (checked under SpecPartial)         *)
(***************************************************************************)
\* The default of a field: 0, an empty mapping, an empty list, an empty
\* text; for the source the string given.
DefaultOf(f, source) ==
    CASE f = "relevance_score" -> Zero
      [] f = "source" -> source
      [] OTHER -> <<>>

\* The item with its missing fields written out at their defaults.
Explicit(item, source) ==
    [f \in OptionalFields |-> IF f \in DOMAIN item THEN item[f] ELSE DefaultOf(f, source)]

ExplicitData(source) == [i \in 1..Len(data) |-> Explicit(data[i], source)]

SourcesOf(d) == {Get(d[i], "source", "") : i \in 1..Len(d)}

\* The item-level stages give on the batch what they give on d.
SameResultAs(d) ==
    /\ pc = "filter_by_relevance" =>
          filtered_data = FilterByRelevance(d, min_relevance_score)
    /\ pc = "filter_by_engagement" =>
          filtered_data = FilterByEngagement(d, min_percentile)
    /\ pc = "group_by_topic" => topics = GroupByTopic(d)
    /\ pc = "extract_trending_topics" =>
          \E h \in Orders(SourcesOf(d)) : trending_topics = TrendingTopics(d, top_n, h)
    /\ pc = "extract_key_facts" =>
          \E h \in SentenceOrders : key_facts = ExtractKeyFacts(d, topic, h)

SameInsightsAs(d) ==
    /\ pc = "generate_source_distribution" =>
          source_distribution = SourceDistribution(d, topics)
    /\ pc = "generate_engagement_metrics" =>
          engagement_metrics = EngagementMetrics(d, topics)

ItemStages ==
    {"filter_by_relevance", "filter_by_engagement", "group_by_topic",
     "extract_trending_topics", "extract_key_facts"}

\* C25: every core stage leaves its input unchanged.  When one of the five
\* item stages returns, the list handed in has the same items in the same
\* order with the same field values; so have the clusters and their items
\* when generate_source_distribution or generate_engagement_metrics returns,
\* and the trending topics when generate_topic_insights or
\* generate_content_recommendations returns.
C25_StagesLeaveInputUnchanged ==
    [][/\ pc' \in ItemStages => data' = data
       /\ pc' \in {"generate_source_distribution", "generate_engagement_metrics"} =>
             (topics' = topics /\ data' = data)
       /\ pc' \in {"generate_topic_insights", "generate_content_recommendations"} =>
             trending_topics' = trending_topics]_vars

\* A filter has returned fewer items than the three it was handed, one of
\* them lacking its relevance_score.
C25_Witness ==
    /\ pc = "filter_by_relevance"
    /\ Len(data) = 3
    /\ \E i \in 1..3 : "relevance_score" \notin DOMAIN data[i]
    /\ Len(filtered_data) < 3

(***************************************************************************)
(* Claims about the unclassified pass of group_by_topic (SpecGroup)        *)
(***************************************************************************)
\* The items of the result's 'outros' list.
InOutros == Range(ClusterOf("outros"))

\* The members of the clusters the loop over top_entities builds.
InEntityClusters ==
    LET clusters == EntityClusters(data)
    IN  UNION {Range(clusters[k][2]) : k \in 1..Len(clusters)}

\* C26: whether group_by_topic puts an item into 'outros' depends only on
\* the item's content: two items of equal content are both in 'outros' or
\* both not, and an item whose content equals that of a member of a
\* selected-entity cluster is not in 'outros'.
C26_OutrosByContent ==
    pc = "group_by_topic" =>
        /\ \A i, j \in 1..Len(data) :
              data[i] = data[j] => (i \in InOutros <=> j \in InOutros)
        /\ \A i \in 1..Len(data), j \in InEntityClusters :
              data[i] = data[j] => i \notin InOutros

\* Two items of equal content in the cluster Lula, a third one in 'outros'.
C26_Witness ==
    /\ pc = "group_by_topic"
    /\ Len(data) = 3
    /\ data[1] = data[3]
    /\ IsCluster("Lula")
    /\ ClusterOf("Lula") = <<1, 3>>
    /\ ClusterOf("outros") = <<2>>

(***************************************************************************)
(* SpecFull: main.run_full_pipeline, one step per stage.  What the stages' *)
(* collaborators give (the Ollama client, the agents, the processor, the   *)
(* generators) is fixed by env at the start.  A report is "True", "False" *)
(* or "raises" when the stage lets an exception through.                  *)
(***************************************************************************)
MaxArticles == 2

Stages ==
    <<"check_ollama_connection", "run_data_collection", "run_data_processing",
      "run_insight_generation", "run_content_generation">>

\* orchestrator.agents
AgentNames == {"g1", "twitter", "instagram"}

\* What a call gives: an exception, an empty (falsy) value, a non-empty one.
Outcomes == {"raises", "empty", "nonempty"}

Environments ==
    [models            : Outcomes,
     agent_success     : [AgentNames -> BOOLEAN],
     processed_data    : Outcomes,
     insights          : Outcomes,
     articles_raises   : BOOLEAN,
     articles          : 0..MaxArticles]

InitFull ==
    /\ pc = "ready"
    /\ args \in [agent : AgentNames \cup {"None"}, max_articles : {MaxArticles}]
    /\ env \in Environments
    /\ reports = <<>>
    /\ returned = ""
    /\ data = <<>>
    /\ topic = ""
    /\ top_n = 0
    /\ trending_topics = <<>>
    /\ topics = <<>>
    /\ key_facts = <<>>
    /\ topic_insights = <<>>
    /\ recommendations = <<>>
    /\ min_relevance_score = Zero
    /\ min_percentile = Zero
    /\ engagement_values = <<>>
    /\ filtered_data = <<>>
    /\ source_distribution = <<>>
    /\ engagement_metrics = <<>>
    /\ runs = 0
    /\ previous_run = <<>>
    /\ threshold = <<>>
    /\ data_files = <<>>

\* The report of a run_* function whose collaborator gave `outcome`.
ReportOf(outcome) ==
    CASE outcome = "raises" -> "raises"
      [] outcome = "empty" -> "False"
      [] OTHER -> "True"

\* Mutant of After: the pipeline goes on after a stage that reported False.
After_GoesOn(stage, report) ==
    IF report = "raises" THEN "raised"
    ELSE IF stage = Stages[Len(Stages)] THEN "return" ELSE stage

\* Where run_full_pipeline is after a stage: past the stage when it reported
\* True, returned after False and after the last stage, left by the exception
\* otherwise.
After(stage, report) ==
    IF report = "raises" THEN "raised"
    ELSE IF report = "False" \/ stage = Stages[Len(Stages)] THEN "return"
    ELSE stage

\* One stage of run_full_pipeline and what follows its report.
Stage(stage, report) ==
    /\ reports' = Append(reports, <<stage, report>>)
    /\ pc' = After(stage, report)
    /\ returned' = IF pc' # "return" THEN returned
                   ELSE IF report = "True" THEN "True" ELSE "False"
    /\ UNCHANGED <<args, env, data, topic, top_n, trending_topics, topics,
                   key_facts, topic_insights, recommendations,
                   min_relevance_score, min_percentile, engagement_values,
                   filtered_data, source_distribution, engagement_metrics,
                   runs, previous_run, threshold, data_files>>

\* True when the client lists a model; an exception is caught and gives False.
check_ollama_connection ==
    /\ pc = "ready"
    /\ Stage("check_ollama_connection",
             IF env.models = "nonempty" THEN "True" ELSE "False")

\* One agent: its success; all agents: whether any of them succeeded.
run_data_collection ==
    /\ pc = "check_ollama_connection"
    /\ Stage("run_data_collection",
             IF args.agent # "None"
             THEN IF args.agent \notin AgentNames THEN "False"
                  ELSE IF env.agent_success[args.agent] THEN "True" ELSE "False"
             ELSE IF \E a \in AgentNames : env.agent_success[a] THEN "True" ELSE "False")

run_data_processing ==
    /\ pc = "run_data_collection"
    /\ Stage("run_data_processing", ReportOf(env.processed_data))

run_insight_generation ==
    /\ pc = "run_data_processing"
    /\ Stage("run_insight_generation", ReportOf(env.insights))

run_content_generation ==
    /\ pc = "run_insight_generation"
    /\ Stage("run_content_generation",
             IF env.articles_raises THEN "raises"
             ELSE IF env.articles > 0 THEN "True" ELSE "False")

NextFull ==
    \/ check_ollama_connection
    \/ run_data_collection
    \/ run_data_processing
    \/ run_insight_generation
    \/ run_content_generation

SpecFull == InitFull /\ [][NextFull]_vars

(***************************************************************************)
(* Claims about run_full_pipeline (checked under SpecFull)                 *)
(***************************************************************************)
AllSucceeded ==
    /\ Len(reports) = Len(Stages)
    /\ \A k \in 1..Len(reports) : reports[k][2] = "True"

\* C27: run_full_pipeline runs the stages in the order Ollama connection
\* check, data collection, data processing, insight generation, content
\* generation; a stage has run only if every earlier stage reported success
\* (so no stage runs after the first failing one); and the function returns
\* True if and only if all five stages reported success.
C27_StagesInOrderUntilFirstFailure ==
    /\ Len(reports) <= Len(Stages)
    /\ \A k \in 1..Len(reports) :
          /\ reports[k][1] = Stages[k]
          /\ k < Len(reports) => reports[k][2] = "True"
    /\ returned = "True" <=> AllSucceeded
    /\ pc = "return" <=> returned \in {"True", "False"}
    /\ (pc = "return" /\ returned = "False") =>
          reports[Len(reports)][2] = "False"

C27_Witness ==
    /\ pc = "return"
    /\ returned = "False"
    /\ Len(reports) = 3
    /\ args.agent = "None"
    /\ ~env.agent_success["g1"]

(***************************************************************************)
(* Claims about the insights of extracted topics (checked under            *)
(* SpecPartial, whose trending topics are those of the batch, with their   *)
(* key facts, and whose engagement values are all >= 0)                    *)
(***************************************************************************)
Recommended(t) == \E r \in 1..Len(recommendations) : recommendations[r].topic = t

CarriedBy(i, x) ==
    Occurrences(data[i].entities, x) + Occurrences(data[i].hashtags, x)

\* C29: every candidate of extract_trending_topics has
\* count >= related_items_count >= 1, and count is the larger exactly when
\* some item carries the token more than once, entity and hashtag
\* occurrences counted together.
C29_CountAtLeastRelatedItems ==
    pc = "extract_trending_topics" =>
        \A k \in 1..Len(trending_topics) :
            LET t == trending_topics[k] IN
            /\ t.count >= t.related_items_count
            /\ t.related_items_count >= 1
            /\ t.count > t.related_items_count <=>
                  \E i \in 1..Len(data) : CarriedBy(i, t.topic) > 1

\* Lula three times in two items: twice in the entities of one, once in
\* the other.
C29_Witness ==
    /\ pc = "extract_trending_topics"
    /\ Len(trending_topics) >= 1
    /\ trending_topics[1].topic = "Lula"
    /\ trending_topics[1].count = 3
    /\ trending_topics[1].related_items_count = 2

(***************************************************************************)
(* Claims about what the engagement filter keeps (checked under SpecFilter)*)
(***************************************************************************)
IsMaximum(i) == \A j \in 1..Len(data) : RGe(EngagementOf(i), EngagementOf(j))

\* C30: for a non-empty input and any min_percentile in [0, 1],
\* filter_by_engagement returns a non-empty list that holds every item whose
\* engagement value is the maximum of the batch.
C30_KeepsTheMaximum ==
    (pc = "filter_by_engagement" /\ data # <<>>) =>
        /\ filtered_data # <<>>
        /\ \A i \in 1..Len(data) : IsMaximum(i) => i \in Range(filtered_data)

\* Percentile 1 on three items of values 0.2, 3 and 3: the two of value 3
\* are kept.
C30_Witness ==
    /\ pc = "filter_by_engagement"
    /\ min_percentile = R(1, 1)
    /\ Len(data) = 3
    /\ filtered_data = <<2, 3>>

====
